---- MODULE Spec2Model ----
(***************************************************************************)
(* GitCherry: the operation engine (plan builder, executor, audit/undo     *)
(* store) as a state machine.                                              *)
(*                                                                         *)
(* Strings are sequences of characters.  A character is a one-letter TLA+  *)
(* string; a run of letters that holds none of the characters the code     *)
(* inspects (space, double quote, backslash, newline, dot) is written as   *)
(* one element, e.g. <<"git", " ", "checkout">>.  The empty Go string is   *)
(* the empty sequence.                                                     *)
(***************************************************************************)
EXTENDS Integers, Sequences, FiniteSets, TLC

\* ------------------------------------------------------------------ bounds
MaxHist == 3      \* longest undo history the store specifications build
MaxClock == 2     \* the wall clock runs over 1..MaxClock
MaxN == 3         \* largest N of the push/undo/redo lifecycle
MaxLogs == 3      \* WriteOperation calls the log specification lets succeed
MaxOps == 1       \* operations the CLI specification lets succeed

\* -------------------------------------------------------------- characters
SP == " "
DQ == "\""
BS == "\\"
NL == "\n"
DOT == "."

EmptyStr == <<>>

\* The zero time.Time (Timestamp.IsZero()).
ZeroTime == 0

\* ------------------------------------------------------------- undo entries
\* logs.UndoEntry
UndoEntry(source, target, beforeHead, afterHead, timestamp) ==
  [Source |-> source, Target |-> target, BeforeHead |-> beforeHead,
   AfterHead |-> afterHead, Timestamp |-> timestamp]

\* UndoEntry{} : the zero value returned with found = false
ZeroEntry == UndoEntry(EmptyStr, EmptyStr, EmptyStr, EmptyStr, ZeroTime)

\* The entries the store calls are driven with (those of TestUndoRedoLifecycle
\* and one that already carries a timestamp).
TestEntrySeq ==
  << UndoEntry(<<"main">>, <<"feature">>, <<"a1">>, <<"b1">>, ZeroTime),
     UndoEntry(<<"main">>, <<"feature">>, <<"a2">>, <<"b2">>, ZeroTime),
     UndoEntry(<<"feature">>, <<"main">>, <<"a3">>, <<"b3">>, 1) >>

TestEntries == {TestEntrySeq[i] : i \in 1..Len(TestEntrySeq)}

\* ---------------------------------------------------------- the undo file
\* undoState{History, Position}
undoState(history, position) == [History |-> history, Position |-> position]

\* The file .gitcherry/undo.json: absent, zero bytes long, or the JSON of an
\* undoState.
MissingFile == [kind |-> "missing", History |-> <<>>, Position |-> 0]
EmptyFile == [kind |-> "empty", History |-> <<>>, Position |-> 0]
JsonFile(state) ==
  [kind |-> "json", History |-> state.History, Position |-> state.Position]

\* The file exists but os.ReadFile fails on it (a permission, a directory),
\* or holds bytes json.Unmarshal refuses; what it holds is kept as History
\* and Position and is not interpreted.
UnreadableFile(state) ==
  [kind |-> "unreadable", History |-> state.History,
   Position |-> state.Position]
InvalidFile(state) ==
  [kind |-> "invalid", History |-> state.History, Position |-> state.Position]

\* loadUndoStateLocked returns an error: ReadFile failed with something other
\* than fs.ErrNotExist, or Unmarshal failed.
loadUndoStateFails(file) == file.kind \in {"unreadable", "invalid"}

\* A loader that also replaces position 0 (bound written as <= 0).
loadUndoStateLocked_ZeroReset(file) ==
  IF file.kind \in {"missing", "empty"}
  THEN undoState(<<>>, 0)
  ELSE IF file.Position <= 0 \/ file.Position > Len(file.History)
       THEN undoState(file.History, Len(file.History))
       ELSE undoState(file.History, file.Position)

\* loadUndoStateLocked: a missing or empty file is the zero state; a position
\* outside 0..len(History) is replaced by len(History).
loadUndoStateLocked(file) ==
  IF file.kind \in {"missing", "empty"}
  THEN undoState(<<>>, 0)
  ELSE IF file.Position < 0 \/ file.Position > Len(file.History)
       THEN undoState(file.History, Len(file.History))
       ELSE undoState(file.History, file.Position)

\* saveUndoStateLocked: the file becomes the JSON of the state.
saveUndoStateLocked(state) == JsonFile(state)

\* PushUndo, line 291: a zero timestamp is replaced by time.Now().
StampEntry(entry, t) ==
  IF entry.Timestamp = ZeroTime THEN [entry EXCEPT !.Timestamp = t] ELSE entry

\* A push that advances the position one past the new length.
PushState_PastEnd(state, entry) ==
  LET kept == IF state.Position < Len(state.History)
              THEN SubSeq(state.History, 1, state.Position)
              ELSE state.History
      hist == Append(kept, entry)
  IN undoState(hist, Len(hist) + 1)

\* A push that appends without dropping the redo entries.
PushState_NoTruncate(state, entry) ==
  LET hist == Append(state.History, entry)
  IN undoState(hist, Len(hist))

\* PushUndo, lines 300-304: drop the entries at and after Position, append.
PushState(state, entry) ==
  LET kept == IF state.Position < Len(state.History)
              THEN SubSeq(state.History, 1, state.Position)
              ELSE state.History
      hist == Append(kept, entry)
  IN undoState(hist, Len(hist))

\* An undo that drops the entry it returns and those after it.
UndoState_Truncate(state) ==
  IF state.Position = 0
  THEN [found |-> FALSE, entry |-> ZeroEntry, state |-> state]
  ELSE [found |-> TRUE,
        entry |-> state.History[state.Position - 1 + 1],
        state |-> undoState(SubSeq(state.History, 1, state.Position - 1),
                            state.Position - 1)]

\* An undo that returns the entry but keeps the position.
UndoState_NoStep(state) ==
  IF state.Position = 0
  THEN [found |-> FALSE, entry |-> ZeroEntry, state |-> state]
  ELSE [found |-> TRUE,
        entry |-> state.History[state.Position - 1 + 1],
        state |-> state]

\* Undo, lines 319-323
UndoState(state) ==
  IF state.Position = 0
  THEN [found |-> FALSE, entry |-> ZeroEntry, state |-> state]
  ELSE [found |-> TRUE,
        entry |-> state.History[state.Position - 1 + 1],
        state |-> undoState(state.History, state.Position - 1)]

\* A redo that returns the entry but keeps the position.
RedoState_NoStep(state) ==
  IF state.Position >= Len(state.History)
  THEN [found |-> FALSE, entry |-> ZeroEntry, state |-> state]
  ELSE [found |-> TRUE,
        entry |-> state.History[state.Position + 1],
        state |-> state]

\* Redo, lines 342-346
RedoState(state) ==
  IF state.Position >= Len(state.History)
  THEN [found |-> FALSE, entry |-> ZeroEntry, state |-> state]
  ELSE [found |-> TRUE,
        entry |-> state.History[state.Position + 1],
        state |-> undoState(state.History, state.Position + 1)]

\* ------------------------------------------------------ string helpers
RECURSIVE Concat(_)
\* The concatenation of a sequence of strings.
Concat(strs) ==
  IF strs = <<>> THEN <<>> ELSE Head(strs) \o Concat(Tail(strs))

IsSpace(c) == c \in {SP, NL}

RECURSIVE TrimLeft(_)
TrimLeft(str) ==
  IF str # <<>> /\ IsSpace(Head(str)) THEN TrimLeft(Tail(str)) ELSE str

RECURSIVE TrimRight(_)
TrimRight(str) ==
  IF str # <<>> /\ IsSpace(str[Len(str)])
  THEN TrimRight(SubSeq(str, 1, Len(str) - 1))
  ELSE str

\* strings.TrimSpace
TrimSpace(str) == TrimRight(TrimLeft(str))

\* One character as fmt's %q writes it inside the quotes.
QuoteChar(c) ==
  CASE c = DQ -> <<BS, DQ>>
    [] c = BS -> <<BS, BS>>
    [] c = NL -> <<BS, "n">>
    [] OTHER -> <<c>>

\* fmt.Sprintf("%q", str): the Go double-quoted literal of str.
Quote(str) ==
  <<DQ>> \o Concat([i \in 1..Len(str) |-> QuoteChar(str[i])]) \o <<DQ>>

\* ------------------------------------------------------------ plan builder
\* fmt.Sprintf("%s^..%s", startHash, endHash)
RangeSpec(startHash, endHash) == startHash \o <<"^", DOT, DOT>> \o endHash

\* A transfer.Plan whose range leaves out the start commit.
transferPlan_NoCaret(source, target, startHash, endHash, message) ==
  << <<"git", SP, "checkout", SP>> \o target,
     <<"git", SP, "cherry-pick", SP, "--no-commit", SP>>
       \o startHash \o <<DOT, DOT>> \o endHash,
     <<"git", SP, "commit", SP, "-m", SP>> \o Quote(message) >>

\* transfer.Plan
transferPlan(source, target, startHash, endHash, message) ==
  << <<"git", SP, "checkout", SP>> \o target,
     <<"git", SP, "cherry-pick", SP, "--no-commit", SP>>
       \o RangeSpec(startHash, endHash),
     <<"git", SP, "commit", SP, "-m", SP>> \o Quote(message) >>

\* revert.Plan
revertPlan(source, target, startHash, endHash, message) ==
  << <<"git", SP, "checkout", SP>> \o target,
     <<"git", SP, "revert", SP, "--no-commit", SP>>
       \o RangeSpec(startHash, endHash),
     <<"git", SP, "commit", SP, "-m", SP>> \o Quote(message) >>

\* restore.Plan
restorePlan(branchName, commitHash) ==
  << <<"git", SP, "branch", SP>> \o branchName \o <<SP>> \o commitHash >>

\* The arguments revert.Execute passes to runner.Run, in order.
revertExecuteArgs(target, startHash, endHash, message) ==
  << << <<"checkout">>, target >>,
     << <<"revert">>, <<"--no-commit">>, RangeSpec(startHash, endHash) >>,
     << <<"commit">>, <<"-m">>, message >> >>

\* A restore.Execute that checks the new branch out after creating it.
restoreExecuteArgs_Checkout(branchName, commitHash) ==
  << << <<"branch">>, branchName, commitHash >>,
     << <<"checkout">>, branchName >> >>

\* The arguments restore.Execute passes to runner.Run.
restoreExecuteArgs(branchName, commitHash) ==
  << << <<"branch">>, branchName, commitHash >> >>

RECURSIVE splitLoop(_, _, _, _, _)
\* The loop of splitCommand from rune i on.
splitLoop(runes, i, args, current, inQuotes) ==
  IF i > Len(runes)
  THEN [args |-> args, current |-> current, inQuotes |-> inQuotes]
  ELSE LET r == runes[i] IN
    CASE r = DQ -> splitLoop(runes, i + 1, args, current, ~inQuotes)
      [] r = SP ->
           IF ~inQuotes
           THEN IF Len(current) > 0
                THEN splitLoop(runes, i + 1, Append(args, current), <<>>,
                               inQuotes)
                ELSE splitLoop(runes, i + 1, args, current, inQuotes)
           ELSE splitLoop(runes, i + 1, args, Append(current, r), inQuotes)
      [] r = BS ->
           IF inQuotes /\ i + 1 <= Len(runes)
           THEN splitLoop(runes, i + 2, args, Append(current, runes[i + 1]),
                          inQuotes)
           ELSE splitLoop(runes, i + 1, args, Append(current, r), inQuotes)
      [] OTHER -> splitLoop(runes, i + 1, args, Append(current, r), inQuotes)

\* splitCommand: the command line cut into arguments.
splitCommand(command) ==
  LET r == splitLoop(command, 1, <<>>, <<>>, FALSE)
  IN IF r.inQuotes
     THEN [err |-> TRUE, args |-> <<>>]
     ELSE [err |-> FALSE,
           args |-> IF Len(r.current) > 0 THEN Append(r.args, r.current)
                    ELSE r.args]

\* Index of the first ".." in spec, 0 when there is none (strings.Contains).
FirstDotDot(spec) ==
  LET hits == {i \in 1..(Len(spec) - 1) : spec[i] = DOT /\ spec[i + 1] = DOT}
  IN IF hits = {} THEN 0 ELSE CHOOSE i \in hits : \A j \in hits : i <= j

\* A parseRangeSpec that lets an endpoint be empty.
parseRangeSpec_OpenEnded(rawSpec, allowSingle) ==
  LET spec == TrimSpace(rawSpec)
      i == FirstDotDot(spec)
      bad == [err |-> TRUE, start |-> EmptyStr, end |-> EmptyStr]
  IN IF spec = EmptyStr THEN bad
     ELSE IF i # 0
          THEN LET left == SubSeq(spec, 1, i - 1)
                   right == SubSeq(spec, i + 2, Len(spec))
               IN IF left = EmptyStr /\ right = EmptyStr THEN bad
                  ELSE [err |-> FALSE, start |-> left, end |-> right]
          ELSE IF ~allowSingle THEN bad
               ELSE [err |-> FALSE, start |-> spec, end |-> spec]

\* A parseRangeSpec that takes a single reference in either mode.
parseRangeSpec_AlwaysSingle(rawSpec, allowSingle) ==
  LET spec == TrimSpace(rawSpec)
      i == FirstDotDot(spec)
      bad == [err |-> TRUE, start |-> EmptyStr, end |-> EmptyStr]
  IN IF spec = EmptyStr THEN bad
     ELSE IF i # 0
          THEN LET left == SubSeq(spec, 1, i - 1)
                   right == SubSeq(spec, i + 2, Len(spec))
               IN IF left = EmptyStr \/ right = EmptyStr THEN bad
                  ELSE [err |-> FALSE, start |-> left, end |-> right]
          ELSE IF FALSE /\ ~allowSingle THEN bad
               ELSE [err |-> FALSE, start |-> spec, end |-> spec]

\* parseRangeSpec
parseRangeSpec(rawSpec, allowSingle) ==
  LET spec == TrimSpace(rawSpec)
      i == FirstDotDot(spec)
      bad == [err |-> TRUE, start |-> EmptyStr, end |-> EmptyStr]
  IN IF spec = EmptyStr THEN bad
     ELSE IF i # 0
          THEN LET left == SubSeq(spec, 1, i - 1)
                   right == SubSeq(spec, i + 2, Len(spec))
               IN IF left = EmptyStr \/ right = EmptyStr THEN bad
                  ELSE [err |-> FALSE, start |-> left, end |-> right]
          ELSE IF ~allowSingle THEN bad
               ELSE [err |-> FALSE, start |-> spec, end |-> spec]

\* ------------------------------------------------------- range resolver
\* What `git rev-list --reverse spec` can answer: failure, nothing, the
\* commits of the range.
RevListOutputs(start, end) ==
  { [err |-> TRUE, lines |-> <<>>],
    [err |-> FALSE, lines |-> <<>>],
    [err |-> FALSE, lines |-> IF start = end THEN <<start>> ELSE <<start, end>>] }

\* A resolver that takes the answer to start..end as it is.
collectCommitsForRange_NoPrepend(start, end, out1, out2) ==
  LET spec1 == [args |-> << <<"rev-list">>, <<"--reverse">>,
                             RangeSpec(start, end) >>,
                ok |-> ~out1.err]
      spec2 == [args |-> << <<"rev-list">>, <<"--reverse">>,
                             start \o <<DOT, DOT>> \o end >>,
                ok |-> ~out2.err]
      literal == IF start # end THEN <<start, end>> ELSE <<start>>
  IN IF ~out1.err /\ Len(out1.lines) > 0
     THEN [err |-> FALSE, hashes |-> out1.lines, log |-> <<spec1>>]
     ELSE IF out2.err
          THEN [err |-> TRUE, hashes |-> <<>>, log |-> <<spec1, spec2>>]
          ELSE LET hashes == out2.lines
               IN [err |-> FALSE,
                   hashes |-> IF Len(hashes) = 0 THEN literal ELSE hashes,
                   log |-> <<spec1, spec2>>]

\* collectCommitsForRange: out1 answers start^..end, out2 answers start..end
\* (asked only when the first query failed or listed nothing).
collectCommitsForRange(start, end, out1, out2) ==
  LET spec1 == [args |-> << <<"rev-list">>, <<"--reverse">>,
                             RangeSpec(start, end) >>,
                ok |-> ~out1.err]
      spec2 == [args |-> << <<"rev-list">>, <<"--reverse">>,
                             start \o <<DOT, DOT>> \o end >>,
                ok |-> ~out2.err]
      literal == IF start # end THEN <<start, end>> ELSE <<start>>
  IN IF ~out1.err /\ Len(out1.lines) > 0
     THEN [err |-> FALSE, hashes |-> out1.lines, log |-> <<spec1>>]
     ELSE IF out2.err
          THEN [err |-> TRUE, hashes |-> <<>>, log |-> <<spec1, spec2>>]
          ELSE LET hashes == IF Len(out2.lines) = 0 \/ out2.lines[1] # start
                             THEN <<start>> \o out2.lines
                             ELSE out2.lines
               IN [err |-> FALSE,
                   hashes |-> IF Len(hashes) = 0 THEN literal ELSE hashes,
                   log |-> <<spec1, spec2>>]

\* ------------------------------------------------------------ the repository
\* Branch and commit names of the modelled repository.
Main == <<"main">>
Feature == <<"feature">>
Backup == <<"backup">>
AllBranches == {Main, Feature, Backup}
CommitNames == <<"c1", "c2", "c3", "c4", "c5", "c6", "c7", "c8", "c9">>

\* A repository with branches main and feature, clean, main checked out.
\* head[b] = "" means branch b does not exist; made counts the commits created.
InitRepo ==
  [head |-> [b \in AllBranches |->
               CASE b = Main -> <<"c1">> [] b = Feature -> <<"c2">>
                 [] OTHER -> EmptyStr],
   checkedOut |-> Main, dirty |-> FALSE, made |-> 0]

BranchExists(repo, b) == b \in AllBranches /\ repo.head[b] # EmptyStr

\* The subcommands that move a branch head, the index or the working tree.
MutatingSubcommands ==
  {<<"checkout">>, <<"cherry-pick">>, <<"revert">>, <<"commit">>, <<"branch">>,
   <<"reset">>}

IsMutating(args) == Len(args) > 0 /\ args[1] \in MutatingSubcommands

\* The commit a revision names: a branch name is its head, anything else
\* is taken as the commit's own identifier.
Resolve(repo, rev) ==
  IF rev \in AllBranches /\ repo.head[rev] # EmptyStr THEN repo.head[rev]
  ELSE rev

\* What git writes to stderr when it exits nonzero.
GitStderr(outcome) ==
  IF outcome = "conflict" THEN <<"CONFLICT">> ELSE <<"fatal">>

\* Runner.Run(args...): what git does to the repository.  outcome is git's
\* answer when the command could succeed: "ok", "conflict" (the range stops
\* on a conflict, changes stay in the tree) or "fatal" (nothing done).
gitRun(repo, args, outcome) ==
  LET sub == IF Len(args) > 0 THEN args[1] ELSE EmptyStr
      failed == [repo |-> IF outcome = "conflict"
                             /\ sub \in {<<"cherry-pick">>, <<"revert">>}
                          THEN [repo EXCEPT !.dirty = TRUE] ELSE repo,
                 ok |-> FALSE, stderr |-> GitStderr(outcome)]
      refused == [repo |-> repo, ok |-> FALSE, stderr |-> GitStderr("fatal")]
      done(r) == [repo |-> r, ok |-> TRUE, stderr |-> EmptyStr]
  IN CASE sub = <<"checkout">> ->
            IF Len(args) # 2 \/ ~BranchExists(repo, args[2]) THEN refused
            ELSE IF outcome # "ok" THEN failed
            ELSE done([repo EXCEPT !.checkedOut = args[2]])
       [] sub \in {<<"cherry-pick">>, <<"revert">>} ->
            IF Len(args) # 3 THEN refused
            ELSE IF outcome # "ok" THEN failed
            ELSE done([repo EXCEPT !.dirty = TRUE])
       [] sub = <<"commit">> ->
            IF Len(args) # 3 THEN refused
            ELSE IF outcome # "ok" THEN failed
            ELSE done([repo EXCEPT
                         !.head[repo.checkedOut] = <<CommitNames[repo.made + 3]>>,
                         !.dirty = FALSE,
                         !.made = repo.made + 1])
       [] sub = <<"branch">> ->
            IF Len(args) # 3 \/ args[2] \notin AllBranches
               \/ BranchExists(repo, args[2]) THEN refused
            ELSE IF outcome # "ok" THEN failed
            ELSE done([repo EXCEPT !.head[args[2]] = Resolve(repo, args[3])])
       [] sub = <<"reset">> ->
            IF Len(args) # 3 THEN refused
            ELSE IF outcome # "ok" THEN failed
            ELSE done([repo EXCEPT
                         !.head[repo.checkedOut] = Resolve(repo, args[3]),
                         !.dirty = FALSE])
       [] OTHER -> IF outcome # "ok" THEN failed ELSE done(repo)

\* ------------------------------------------------------------- the executor
\* One git invocation as it happened: its arguments and whether git exited 0.
Ran(args, ok) == [args |-> args, ok |-> ok]

\* exec's error for a nonzero exit, as %v prints it.
ExitErr == <<"exit status 1">>

\* fmt.Errorf("<what> failed: %v (%s)", err, stderr)
FailedMsg(what, stderr) ==
  what \o <<SP, "failed:", SP>> \o ExitErr \o <<SP, "(">> \o stderr \o <<")">>

RECURSIVE execLoop(_, _, _, _, _, _)
\* Run the invocations from the i-th on, stopping at the first that fails.
execLoop(repo, invs, i, failAt, kind, log) ==
  IF i > Len(invs)
  THEN [repo |-> repo, log |-> log, err |-> "none", failed |-> 0,
        stderr |-> EmptyStr]
  ELSE LET r == gitRun(repo, invs[i], IF i = failAt THEN kind ELSE "ok")
       IN IF r.ok
          THEN execLoop(r.repo, invs, i + 1, failAt, kind,
                        Append(log, Ran(invs[i], TRUE)))
          ELSE [repo |-> r.repo, log |-> Append(log, Ran(invs[i], FALSE)),
                err |-> "git", failed |-> i, stderr |-> r.stderr]

\* The error revert.Execute returns when its step-th git command fails.
revertExecuteError(step, target, startHash, endHash, stderr) ==
  CASE step = 1 -> FailedMsg(<<"git", SP, "checkout", SP>> \o target, stderr)
    [] step = 2 ->
         FailedMsg(<<"git", SP, "revert", SP, "--no-commit", SP>>
                     \o RangeSpec(startHash, endHash), stderr)
           \o <<DOT, SP, "Resolve conflicts, then run", SP, "'",
                "git", SP, "revert", SP, "--continue", "'", SP, "or", SP, "'",
                "git", SP, "revert", SP, "--abort", "'">>
    [] step = 3 -> FailedMsg(<<"git", SP, "commit">>, stderr)
    [] OTHER -> EmptyStr

\* revert.Execute: checkout, revert --no-commit, commit, each checked.
revertExecute(repo, target, startHash, endHash, message, failAt, kind) ==
  LET r == execLoop(repo, revertExecuteArgs(target, startHash, endHash,
                                            message), 1, failAt, kind, <<>>)
  IN [repo |-> r.repo, log |-> r.log, err |-> r.err, failed |-> r.failed,
      msg |-> revertExecuteError(r.failed, target, startHash, endHash,
                                 r.stderr)]

\* restore.Execute, its git part: git branch name commit.
restoreExecuteGit(repo, branchName, commitHash, failAt, kind) ==
  LET r == execLoop(repo, restoreExecuteArgs(branchName, commitHash), 1,
                    failAt, kind, <<>>)
  IN [repo |-> r.repo, log |-> r.log, err |-> r.err, failed |-> r.failed,
      msg |-> IF r.failed = 0 THEN EmptyStr
              ELSE FailedMsg(<<"git", SP, "branch", SP>> \o branchName
                               \o <<SP>> \o commitHash, r.stderr)]

RECURSIVE runLoop(_, _, _, _, _, _)
\* The loop of runCommands from the i-th command on.
runLoop(repo, commands, i, failAt, kind, log) ==
  IF i > Len(commands)
  THEN [repo |-> repo, log |-> log, err |-> "none", failed |-> 0,
        msg |-> EmptyStr]
  ELSE LET split == splitCommand(commands[i]) IN
    IF split.err
    THEN [repo |-> repo, log |-> log, err |-> "split", failed |-> i,
          msg |-> <<"unterminated quote in command">>]
    ELSE IF Len(split.args) = 0
    THEN runLoop(repo, commands, i + 1, failAt, kind, log)
    ELSE IF split.args[1] # <<"git">>
    THEN [repo |-> repo, log |-> log, err |-> "unsupported", failed |-> i,
          msg |-> <<"unsupported command:", SP>> \o commands[i]]
    ELSE LET args == Tail(split.args)
             r == gitRun(repo, args, IF i = failAt THEN kind ELSE "ok")
         IN IF r.ok
            THEN runLoop(r.repo, commands, i + 1, failAt, kind,
                         Append(log, Ran(args, TRUE)))
            ELSE [repo |-> r.repo, log |-> Append(log, Ran(args, FALSE)),
                  err |-> "git", failed |-> i,
                  msg |-> FailedMsg(commands[i], r.stderr)]

\* A runCommands that aborts the git operation it saw fail.
runCommands_AbortOnFailure(repo, commands, failAt, kind) ==
  LET first == runLoop(repo, commands, 1, failAt, kind, <<>>)
      verb == first.log[Len(first.log)].args[1]
  IN IF first.err = "git"
     THEN [first EXCEPT
             !.log = Append(@, Ran(<< verb, <<"--abort">> >>, TRUE)),
             !.repo = [@ EXCEPT !.dirty = FALSE]]
     ELSE first

\* A runCommands that runs a failed command a second time and goes on.
runCommands_Retry(repo, commands, failAt, kind) ==
  LET first == runLoop(repo, commands, 1, failAt, kind, <<>>)
  IN IF first.err = "git"
     THEN runLoop(first.repo, commands, first.failed, 0, kind, first.log)
     ELSE first

\* A runCommands that reports success whatever the commands did.
runCommands_SwallowError(repo, commands, failAt, kind) ==
  [runLoop(repo, commands, 1, failAt, kind, <<>>) EXCEPT
     !.err = "none", !.failed = 0]

\* runCommands: split each command, run it, stop at the first failure.
runCommands(repo, commands, failAt, kind) ==
  runLoop(repo, commands, 1, failAt, kind, <<>>)

\* currentHead(runner, ref): git rev-parse ref.
currentHead(repo, ref, lookupOk) ==
  IF lookupOk /\ BranchExists(repo, ref)
  THEN [err |-> FALSE, head |-> repo.head[ref]]
  ELSE [err |-> TRUE, head |-> EmptyStr]

\* ----------------------------------------------------------- operation log
\* logs.Operation
Operation(source, target, startHash, endHash, message, commands, timestamp) ==
  [Source |-> source, Target |-> target, StartHash |-> startHash,
   EndHash |-> endHash, Message |-> message, Commands |-> commands,
   Timestamp |-> timestamp]

NoOperation ==
  Operation(EmptyStr, EmptyStr, EmptyStr, EmptyStr, EmptyStr, <<>>, ZeroTime)

\* The names in use in .gitcherry/logs; a name is the timestamp (to the
\* second) and the numeric suffix, 0 for none.
LogNames(files) == {f.name : f \in files}

\* A path choice that always takes the timestamp's own name.
LogPath_NoSuffix(files, timestamp) == <<timestamp, 0>>

\* WriteOperation, lines 267-277: the timestamp's name, or on collision the
\* first free suffix _1, _2, ...
LogPath(files, timestamp) ==
  IF <<timestamp, 0>> \notin LogNames(files)
  THEN <<timestamp, 0>>
  ELSE LET free == {i \in 1..(Cardinality(files) + 1) :
                      <<timestamp, i>> \notin LogNames(files)}
       IN <<timestamp, CHOOSE i \in free : \A j \in free : i <= j>>

\* WriteOperation: stamp a zero timestamp, pick the path, write the file.
WriteOperation(files, op, t) ==
  LET stamped == IF op.Timestamp = ZeroTime THEN [op EXCEPT !.Timestamp = t]
                 ELSE op
      path == LogPath(files, stamped.Timestamp)
  IN {f \in files : f.name # path} \cup {[name |-> path, op |-> stamped]}

\* PushUndo on the file: load, stamp, truncate, append, save.
PushUndoFile(file, entry, t) ==
  saveUndoStateLocked(
    PushState(loadUndoStateLocked(file), StampEntry(entry, t)))

\* ------------------------------------------------------------ CLI handlers
\* An isApply that reads every invocation as --apply.
isApply_Always(flagApply) == TRUE

\* isApply(ctx): the value of the --apply flag.
isApply(flagApply) == flagApply

\* What a command handler did: its error ("none" for success), the lines it
\* printed, the plan it built, the git invocations it ran in order, the
\* repository it left, the record it wrote and the undo entry it pushed.
Outcome(err, log, repo) ==
  [err |-> err, printed |-> <<>>, plan |-> <<>>, log |-> log, repo |-> repo,
   message |-> EmptyStr, msg |-> EmptyStr, write |-> FALSE,
   op |-> NoOperation, push |-> FALSE, undo |-> ZeroEntry]

\* printPlan
printPlan(commands) ==
  IF Len(commands) = 0 THEN << <<"No commands to execute.">> >>
  ELSE << <<"Planned commands:">> >>
         \o [i \in 1..Len(commands) |-> <<SP, SP>> \o commands[i]]

\* A pre-run that never looks at what git status printed.
PreRun_IgnoreDirty(repo, pre) ==
  IF pre = "config" THEN [err |-> "config", log |-> <<>>]
  ELSE LET log == << Ran(<< <<"status">>, <<"--porcelain">> >>, pre # "status") >>
       IN IF pre = "status" THEN [err |-> "status", log |-> log]
          ELSE [err |-> "none", log |-> log]

\* PersistentPreRunE: load the configuration, then git status --porcelain;
\* a dirty tree is refused.  pre is what the environment makes fail.
PreRun(repo, pre) ==
  IF pre = "config" THEN [err |-> "config", log |-> <<>>]
  ELSE LET log == << Ran(<< <<"status">>, <<"--porcelain">> >>, pre # "status") >>
       IN IF pre = "status" THEN [err |-> "status", log |-> log]
          ELSE IF repo.dirty THEN [err |-> "dirty", log |-> log]
          ELSE [err |-> "none", log |-> log]

\* handleDuplicateChoice that goes on when it cannot prompt.
handleDuplicateChoice_NoPromptProceeds(mode, interactive, answer) ==
  CASE mode = "skip" -> FALSE
    [] mode = "apply" -> TRUE
    [] OTHER -> IF ~interactive THEN TRUE ELSE answer

\* handleDuplicateChoice
handleDuplicateChoice(mode, interactive, answer) ==
  CASE mode = "skip" -> FALSE
    [] mode = "apply" -> TRUE
    [] OTHER -> IF ~interactive THEN FALSE ELSE answer

\* renderTemplate on the default template
\* "[Transfer] {source} -> {target} {range}".
renderDefaultTemplate(source, target, rangeSpec) ==
  <<"[Transfer]", SP>> \o source \o <<SP, "->", SP>> \o target \o <<SP>>
    \o rangeSpec

\* resolveTransferMessage: the explicit message, else the rendered template,
\* handed to the editor when --edit is given.
resolveTransferMessage(explicit, edit, edited, from, to, rangeSpec) ==
  IF explicit # EmptyStr THEN explicit
  ELSE IF edit THEN TrimSpace(edited)
  ELSE renderDefaultTemplate(from, to, rangeSpec)

\* Index of the plan command the environment makes fail, 0 for none.
FailAt(fail) ==
  CASE fail = "cmd1" -> 1 [] fail = "cmd2" -> 2 [] fail = "cmd3" -> 3
    [] OTHER -> 0

\* newTransferCmd.RunE after PersistentPreRunE.
TransferCmd(repo, in) ==
  LET pre == PreRun(repo, in.pre)
      parsed == parseRangeSpec(in.range, FALSE)
      commits == collectCommitsForRange(parsed.start, parsed.end, in.out1,
                                        in.out2)
      log1 == pre.log \o commits.log
      log2 == IF Len(commits.hashes) > 0
              THEN log1 \o << Ran(<< <<"log">>, <<"--pretty=%H">>, in.to >>,
                                   in.dup # "err") >>
              ELSE log1
      rangeSpec == parsed.start \o <<DOT, DOT>> \o parsed.end
      message == resolveTransferMessage(in.message, in.edit, in.edited,
                                        in.from, in.to, rangeSpec)
      commands == transferPlan(in.from, in.to, parsed.start, parsed.end,
                               message)
      beforeHead == currentHead(repo, in.to, in.fail # "beforeHead")
      log3 == log2 \o << Ran(<< <<"rev-parse">>, in.to >>, ~beforeHead.err) >>
      run == runCommands(repo, commands, FailAt(in.fail), in.kind)
      log4 == log3 \o run.log
      afterHead == currentHead(run.repo, in.to, in.fail # "afterHead")
      log5 == log4 \o << Ran(<< <<"rev-parse">>, in.to >>, ~afterHead.err) >>
      op == Operation(in.from, in.to, parsed.start, parsed.end, message,
                      commands, ZeroTime)
      undo == UndoEntry(in.to, in.to, beforeHead.head, afterHead.head,
                        ZeroTime)
  IN IF pre.err # "none" THEN Outcome(pre.err, pre.log, repo)
     ELSE IF parsed.err THEN Outcome("range", pre.log, repo)
     ELSE IF in.message # EmptyStr /\ in.edit THEN Outcome("flags", pre.log, repo)
     ELSE IF commits.err THEN Outcome("revlist", log1, repo)
     ELSE IF Len(commits.hashes) > 0 /\ in.dup = "err"
          THEN Outcome("duplicates", log2, repo)
     ELSE IF Len(commits.hashes) > 0 /\ in.dup = "some"
             /\ ~handleDuplicateChoice(in.mode, in.interactive, in.answer)
          THEN [Outcome("none", log2, repo) EXCEPT
                  !.printed = << <<"Skipping transfer due to duplicate patches.">> >>]
     ELSE IF ~isApply(in.apply)
          THEN [Outcome("none", log2, repo) EXCEPT
                  !.printed = printPlan(commands), !.plan = commands,
                  !.message = message]
     ELSE IF beforeHead.err
          THEN [Outcome("beforeHead", log3, repo) EXCEPT !.plan = commands,
                                                !.message = message]
     ELSE IF run.err # "none"
          THEN [Outcome("run", log4, run.repo) EXCEPT
                  !.msg = run.msg, !.plan = commands, !.message = message]
     ELSE IF afterHead.err
          THEN [Outcome("afterHead", log5, run.repo) EXCEPT !.plan = commands,
                                                !.message = message]
     ELSE IF in.fail = "write"
          THEN [Outcome("write", log5, run.repo) EXCEPT !.plan = commands,
                                                !.message = message]
     ELSE [Outcome(IF in.fail = "push" THEN "push" ELSE "none", log5, run.repo)
             EXCEPT !.plan = commands, !.message = message, !.write = TRUE,
                    !.op = op,
                    !.push = (in.fail # "push"), !.undo = undo]

\* newRevertCmd.RunE after PersistentPreRunE.
RevertCmd(repo, in) ==
  LET pre == PreRun(repo, in.pre)
      parsed == parseRangeSpec(in.range, TRUE)
      message == IF in.message = EmptyStr
                 THEN <<"Revert", SP>> \o in.range \o <<SP, "on", SP>> \o in.to
                 ELSE in.message
      commands == revertPlan(in.to, in.to, parsed.start, parsed.end, message)
      beforeHead == currentHead(repo, in.to, in.fail # "beforeHead")
      log1 == pre.log \o << Ran(<< <<"rev-parse">>, in.to >>, ~beforeHead.err) >>
      run == revertExecute(repo, in.to, parsed.start, parsed.end, message,
                           FailAt(in.fail), in.kind)
      log2 == log1 \o run.log
      afterHead == currentHead(run.repo, in.to, in.fail # "afterHead")
      log3 == log2 \o << Ran(<< <<"rev-parse">>, in.to >>, ~afterHead.err) >>
      op == Operation(in.to, in.to, parsed.start, parsed.end, message,
                      commands, ZeroTime)
      undo == UndoEntry(in.to, in.to, beforeHead.head, afterHead.head,
                        ZeroTime)
  IN IF pre.err # "none" THEN Outcome(pre.err, pre.log, repo)
     ELSE IF parsed.err THEN Outcome("range", pre.log, repo)
     ELSE IF ~isApply(in.apply)
          THEN [Outcome("none", pre.log, repo) EXCEPT
                  !.printed = printPlan(commands), !.plan = commands,
                  !.message = message]
     ELSE IF beforeHead.err
          THEN [Outcome("beforeHead", log1, repo) EXCEPT !.plan = commands,
                                                !.message = message]
     ELSE IF run.err # "none"
          THEN [Outcome("run", log2, run.repo) EXCEPT
                  !.msg = run.msg, !.plan = commands, !.message = message]
     ELSE IF afterHead.err
          THEN [Outcome("afterHead", log3, run.repo) EXCEPT !.plan = commands,
                                                !.message = message]
     ELSE IF in.fail = "write"
          THEN [Outcome("write", log3, run.repo) EXCEPT !.plan = commands,
                                                !.message = message]
     ELSE [Outcome(IF in.fail = "push" THEN "push" ELSE "none", log3, run.repo)
             EXCEPT !.plan = commands, !.message = message, !.write = TRUE,
                    !.op = op,
                    !.push = (in.fail # "push"), !.undo = undo]

\* newRestoreCmd.RunE after PersistentPreRunE, with restore.Execute.
RestoreCmd(repo, in, t) ==
  LET pre == PreRun(repo, in.pre)
      commands == restorePlan(in.to, in.commit)
      run == restoreExecuteGit(repo, in.to, in.commit, FailAt(in.fail),
                               in.kind)
      log1 == pre.log \o run.log
      message == <<"Restore branch", SP>> \o in.to \o <<SP, "at", SP>>
                   \o in.commit
      op == Operation(in.to, in.to, in.commit, in.commit, message, commands, t)
      undo == UndoEntry(in.to, EmptyStr, EmptyStr, in.commit, t)
  IN IF pre.err # "none" THEN Outcome(pre.err, pre.log, repo)
     ELSE IF ~isApply(in.apply)
          THEN [Outcome("none", pre.log, repo) EXCEPT
                  !.printed = printPlan(commands), !.plan = commands,
                  !.message = message]
     ELSE IF run.err # "none"
          THEN [Outcome("run", log1, run.repo) EXCEPT
                  !.msg = run.msg, !.plan = commands, !.message = message]
     ELSE IF in.fail = "write"
          THEN [Outcome("write", log1, run.repo) EXCEPT !.plan = commands,
                                                !.message = message]
     ELSE [Outcome(IF in.fail = "push" THEN "push" ELSE "none", log1, run.repo)
             EXCEPT !.plan = commands, !.message = message, !.write = TRUE,
                    !.op = op,
                    !.push = (in.fail # "push"), !.undo = undo]

\* ------------------------------------------------------------------- state
VARIABLES
  undoFile,   \* content of .gitcherry/undo.json under the storage root
  now,        \* the wall clock (time.Now)
  ret,        \* the last store call: its name, argument, result, the undo
              \* file as it was when the call began, and the call before it
  lc,         \* the push/undo/redo lifecycle driver (TestUndoRedoLifecycle)
  thr,        \* per thread: position inside PushUndo and its loaded state
  storageMu,  \* per process: the thread holding that process's storageMu
  logFiles,   \* the files of .gitcherry/logs: name and Operation
  repo,       \* the git repository: branch heads, checked-out branch, tree
  cli,        \* the last CLI command: flags, outcome, and the store and
              \* repository as they were when it began
  fn,         \* the last direct call of a library function: its name, its
              \* arguments and what it returned
  app         \* the TUI's App: branch stage, source and target, the commits
              \* listed and the bounds of the selected range

vars ==
  <<undoFile, now, ret, lc, thr, storageMu, logFiles, repo, cli, fn, app>>

auxVars == <<lc, thr, storageMu>>
cliVars == <<logFiles, repo, cli, fn, app>>

\* ------------------------------------------------------------ store calls
NoCall ==
  [op |-> "none", arg |-> ZeroEntry, at |-> ZeroTime, err |-> FALSE,
   found |-> FALSE, entry |-> ZeroEntry, before |-> MissingFile,
   prev |-> [op |-> "none", err |-> FALSE, found |-> FALSE,
             entry |-> ZeroEntry, before |-> MissingFile]]

\* What a call returned, with the file it began on and the preceding call.
Result(op, arg, t, err, found, entry) ==
  [op |-> op, arg |-> arg, at |-> t, err |-> err, found |-> found,
   entry |-> entry, before |-> undoFile,
   prev |-> [op |-> ret.op, err |-> ret.err, found |-> ret.found,
             entry |-> ret.entry, before |-> ret.before]]

\* PushUndo(entry): load, truncate, append, save.  A failing load is returned
\* before anything is written.  saveOk = FALSE is a failing
\* MkdirAll/WriteFile; the file is then left as it was.
PushUndo(entry, t, saveOk) ==
  /\ now' = t
  /\ IF loadUndoStateFails(undoFile)
     THEN /\ undoFile' = undoFile
          /\ ret' = Result("PushUndo", entry, t, TRUE, FALSE, ZeroEntry)
     ELSE /\ undoFile' = IF saveOk THEN PushUndoFile(undoFile, entry, t)
                         ELSE undoFile
          /\ ret' = Result("PushUndo", entry, t, ~saveOk, FALSE, ZeroEntry)

\* Undo(): load; at position 0 return not-found without saving; else step
\* back, save and return the entry.
Undo(t, saveOk) ==
  LET state == loadUndoStateLocked(undoFile)
      r == UndoState(state)
  IN /\ now' = t
     /\ IF loadUndoStateFails(undoFile)
        THEN /\ undoFile' = undoFile
             /\ ret' = Result("Undo", ZeroEntry, t, TRUE, FALSE, ZeroEntry)
        ELSE IF ~r.found
        THEN /\ undoFile' = undoFile
             /\ ret' = Result("Undo", ZeroEntry, t, FALSE, FALSE, ZeroEntry)
        ELSE /\ undoFile' = IF saveOk THEN saveUndoStateLocked(r.state)
                            ELSE undoFile
             /\ ret' = Result("Undo", ZeroEntry, t, ~saveOk, saveOk,
                              IF saveOk THEN r.entry ELSE ZeroEntry)

\* Redo(): load; at the end of the history return not-found without saving;
\* else take the entry at Position, step forward, save and return it.
Redo(t, saveOk) ==
  LET state == loadUndoStateLocked(undoFile)
      r == RedoState(state)
  IN /\ now' = t
     /\ IF loadUndoStateFails(undoFile)
        THEN /\ undoFile' = undoFile
             /\ ret' = Result("Redo", ZeroEntry, t, TRUE, FALSE, ZeroEntry)
        ELSE IF ~r.found
        THEN /\ undoFile' = undoFile
             /\ ret' = Result("Redo", ZeroEntry, t, FALSE, FALSE, ZeroEntry)
        ELSE /\ undoFile' = IF saveOk THEN saveUndoStateLocked(r.state)
                            ELSE undoFile
             /\ ret' = Result("Redo", ZeroEntry, t, ~saveOk, saveOk,
                              IF saveOk THEN r.entry ELSE ZeroEntry)

Times == now..MaxClock

\* ------------------------------------------- Spec: the store, one caller
LcIdle == [n |-> 0, phase |-> "idle", pushed |-> <<>>, undos |-> <<>>,
           redos |-> <<>>]

Threads == 1..3
Procs == 1..2
\* Threads 1 and 2 are goroutines of one process, thread 3 is another process.
ProcOf(t) == IF t <= 2 THEN 1 ELSE 2

\* No CLI command has run yet.
NoCli ==
  [cmd |-> "none", apply |-> FALSE, err |-> "none", printed |-> <<>>,
   plan |-> <<>>, log |-> <<>>, message |-> EmptyStr, msg |-> EmptyStr,
   from |-> EmptyStr, to |-> EmptyStr, rev |-> EmptyStr,
   in |-> [pre |-> "none"],
   before |-> [undo |-> MissingFile, logs |-> {}, repo |-> InitRepo]]

\* No library function has been called directly yet.
NoFn == [name |-> "none"]

\* tui.NewApp: stage 0, no branches chosen, no commits, no range.  listItems
\* counts the rows of the CommitList widget; last is the handler that ran
\* last, with its arguments and the App as it was before.
NoRange == [start |-> EmptyStr, end |-> EmptyStr, ok |-> FALSE]
NewApp ==
  [branchStage |-> 0, branchSource |-> EmptyStr, branchTarget |-> EmptyStr,
   commits |-> <<>>, commitStart |-> 0 - 1, commitEnd |-> 0 - 1,
   listItems |-> 0, last |-> [name |-> "NewApp"]]

ThrIdle == [t \in Threads |-> [pc |-> "idle", state |-> undoState(<<>>, 0)]]
MuFree == [p \in Procs |-> 0]

Init ==
  /\ undoFile \in {MissingFile, EmptyFile}
  /\ now = 1
  /\ ret = NoCall
  /\ lc = LcIdle
  /\ thr = ThrIdle
  /\ storageMu = MuFree
  /\ logFiles = {}
  /\ repo = InitRepo
  /\ cli = NoCli
  /\ fn = NoFn
  /\ app = NewApp

\* The history is kept within MaxHist entries.
RoomToPush ==
  LET state == loadUndoStateLocked(undoFile)
  IN Len(state.History) < MaxHist \/ state.Position < Len(state.History)

CallPushUndo ==
  /\ RoomToPush
  /\ \E e \in TestEntries, t \in Times, ok \in BOOLEAN : PushUndo(e, t, ok)
  /\ UNCHANGED <<auxVars, cliVars>>

CallUndo ==
  /\ \E t \in Times, ok \in BOOLEAN : Undo(t, ok)
  /\ UNCHANGED <<auxVars, cliVars>>

CallRedo ==
  /\ \E t \in Times, ok \in BOOLEAN : Redo(t, ok)
  /\ UNCHANGED <<auxVars, cliVars>>

Next == CallPushUndo \/ CallUndo \/ CallRedo

Spec == Init /\ [][Next]_vars

\* ------------------------- LifecycleSpec: push N, undo N+1, redo N+1
LcInit ==
  /\ undoFile \in {MissingFile, EmptyFile}
  /\ now = 1
  /\ ret = NoCall
  /\ lc \in {[LcIdle EXCEPT !.n = n, !.phase = "push"] : n \in 0..MaxN}
  /\ thr = ThrIdle
  /\ storageMu = MuFree
  /\ logFiles = {}
  /\ repo = InitRepo
  /\ cli = NoCli
  /\ fn = NoFn
  /\ app = NewApp

LcPush ==
  /\ lc.phase = "push"
  /\ Len(lc.pushed) < lc.n
  /\ \E e \in TestEntries, t \in Times :
       /\ PushUndo(e, t, TRUE)
       /\ lc' = [lc EXCEPT !.pushed = Append(@, StampEntry(e, t))]
  /\ UNCHANGED <<thr, storageMu, cliVars>>

LcStartUndo ==
  /\ lc.phase = "push"
  /\ Len(lc.pushed) = lc.n
  /\ lc' = [lc EXCEPT !.phase = "undo"]
  /\ UNCHANGED <<undoFile, now, ret, thr, storageMu, cliVars>>

LcUndo ==
  /\ lc.phase = "undo"
  /\ Undo(now, TRUE)
  /\ lc' = [lc EXCEPT
              !.undos = Append(@, [found |-> ret'.found, err |-> ret'.err,
                                   entry |-> ret'.entry]),
              !.phase = IF Len(lc.undos) = lc.n THEN "redo" ELSE "undo"]
  /\ UNCHANGED <<thr, storageMu, cliVars>>

LcRedo ==
  /\ lc.phase = "redo"
  /\ Redo(now, TRUE)
  /\ lc' = [lc EXCEPT
              !.redos = Append(@, [found |-> ret'.found, err |-> ret'.err,
                                   entry |-> ret'.entry]),
              !.phase = IF Len(lc.redos) = lc.n THEN "done" ELSE "redo"]
  /\ UNCHANGED <<thr, storageMu, cliVars>>

LcNext == LcPush \/ LcStartUndo \/ LcUndo \/ LcRedo

LifecycleSpec == LcInit /\ [][LcNext]_vars

\* ------------- ConcSpec: PushUndo step by step, by threads of two processes
\* The entry thread t pushes.
ThreadEntry(t) == StampEntry(TestEntrySeq[t], 1)

ConcInit == Init

\* storageMu.Lock(): storageMu is a package-level sync.Mutex, one per process.
CLock(t) ==
  /\ thr[t].pc = "idle"
  /\ storageMu[ProcOf(t)] = 0
  /\ storageMu' = [storageMu EXCEPT ![ProcOf(t)] = t]
  /\ thr' = [thr EXCEPT ![t].pc = "locked"]
  /\ UNCHANGED <<undoFile, now, ret, lc, cliVars>>

\* state, err := loadUndoStateLocked()
CLoad(t) ==
  /\ thr[t].pc = "locked"
  /\ thr' = [thr EXCEPT ![t] = [pc |-> "loaded",
                                state |-> loadUndoStateLocked(undoFile)]]
  /\ UNCHANGED <<undoFile, now, ret, lc, storageMu, cliVars>>

\* truncate, append, saveUndoStateLocked(state)
CSave(t) ==
  /\ thr[t].pc = "loaded"
  /\ undoFile' = saveUndoStateLocked(PushState(thr[t].state, ThreadEntry(t)))
  /\ thr' = [thr EXCEPT ![t].pc = "saved"]
  /\ UNCHANGED <<now, ret, lc, storageMu, cliVars>>

\* defer storageMu.Unlock()
CUnlock(t) ==
  /\ thr[t].pc = "saved"
  /\ storageMu' = [storageMu EXCEPT ![ProcOf(t)] = 0]
  /\ thr' = [thr EXCEPT ![t].pc = "done"]
  /\ UNCHANGED <<undoFile, now, ret, lc, cliVars>>

ConcNext == \E t \in Threads : CLock(t) \/ CLoad(t) \/ CSave(t) \/ CUnlock(t)

ConcSpec == ConcInit /\ [][ConcNext]_vars

\* ---------------------------------- CliSpec: the transfer/revert/restore
\* commands, one process, against the store and the repository
Kinds == {"transfer", "revert", "restore"}

\* --message values: none, plain, with space and quote, with a newline.
MessageInputs == {EmptyStr, <<"m">>, <<"a", SP, DQ, "b">>, <<NL>>}

\* --apply with what the environment makes fail.
ApplyChoices ==
  {[apply |-> TRUE, fail |-> f, kind |-> "fatal"] :
     f \in {"none", "beforeHead", "cmd1", "cmd2", "cmd3", "afterHead",
            "write", "push"}}
    \cup {[apply |-> TRUE, fail |-> "cmd2", kind |-> "conflict"]}

PreFails == {"config", "status"}

RevFail == [err |-> TRUE, lines |-> <<>>]
RevNone == [err |-> FALSE, lines |-> <<>>]
RevBoth == [err |-> FALSE, lines |-> << <<"c1">>, <<"c2">> >>]

\* The plain invocation: gitcherry transfer --from main --to feature
\* --range c1..c2 --message m, dry-run, every lookup answering, no duplicate.
TransferBase ==
  [pre |-> "none", from |-> Main, to |-> Feature,
   range |-> <<"c1", DOT, DOT, "c2">>, message |-> <<"m">>, edit |-> FALSE,
   edited |-> EmptyStr, out1 |-> RevBoth, out2 |-> RevFail, dup |-> "none",
   mode |-> "ask", interactive |-> FALSE, answer |-> FALSE, apply |-> FALSE,
   fail |-> "none", kind |-> "fatal"]

WithRun(in, run) ==
  [in EXCEPT !.apply = run.apply, !.fail = run.fail, !.kind = run.kind]

DryOrApply(ins) == ins \cup {[in EXCEPT !.apply = TRUE] : in \in ins}

\* The transfer invocations explored: the plain one varied in one respect
\* at a time (pre-run failure, range, message source, range lookups,
\* duplicates and policy), each dry and applied, and the plain one with each
\* failure of the apply path.
TransferInputs ==
  DryOrApply(
    {TransferBase}
      \cup {[TransferBase EXCEPT !.pre = p] : p \in PreFails}
      \cup {[TransferBase EXCEPT !.range = <<"c1">>]}
      \cup {[TransferBase EXCEPT !.message = m] : m \in MessageInputs}
      \cup {[TransferBase EXCEPT !.edit = TRUE],
            [TransferBase EXCEPT !.message = EmptyStr, !.edit = TRUE,
                                 !.edited = <<SP>>]}
      \cup {[TransferBase EXCEPT !.out1 = o1, !.out2 = o2] :
              o1 \in {RevFail, RevNone}, o2 \in {RevFail, RevNone, RevBoth}}
      \cup {[TransferBase EXCEPT !.dup = "err"]}
      \cup {[TransferBase EXCEPT !.dup = "some", !.mode = md] :
              md \in {"skip", "apply", "ask"}}
      \cup {[TransferBase EXCEPT !.dup = "some", !.interactive = TRUE,
                                 !.answer = a] : a \in BOOLEAN})
    \cup {WithRun(TransferBase, run) : run \in ApplyChoices}
    \cup {WithRun([TransferBase EXCEPT !.message = <<NL>>], run) :
            run \in ApplyChoices}

\* gitcherry revert --on main --range c2, dry-run.
RevertBase ==
  [pre |-> "none", to |-> Main, range |-> <<"c2">>, message |-> EmptyStr,
   apply |-> FALSE, fail |-> "none", kind |-> "fatal"]

RevertInputs ==
  DryOrApply(
    {RevertBase}
      \cup {[RevertBase EXCEPT !.pre = p] : p \in PreFails}
      \cup {[RevertBase EXCEPT !.range = r] :
              r \in {<<"c1", DOT, DOT, "c2">>, <<"c1", DOT, DOT>>}}
      \cup {[RevertBase EXCEPT !.message = m] : m \in MessageInputs})
    \cup {WithRun(RevertBase, run) : run \in ApplyChoices}

\* gitcherry restore --at c1 --branch-name backup, dry-run.
RestoreBase ==
  [pre |-> "none", to |-> Backup, commit |-> <<"c1">>, apply |-> FALSE,
   fail |-> "none", kind |-> "fatal"]

RestoreInputs ==
  DryOrApply(
    {RestoreBase}
      \cup {[RestoreBase EXCEPT !.pre = p] : p \in PreFails}
      \cup {[RestoreBase EXCEPT !.to = Feature],
            [RestoreBase EXCEPT !.commit = Main]})
    \cup {WithRun(RestoreBase, run) :
            run \in {r \in ApplyChoices : r.fail \in {"cmd1", "write", "push"}}}

\* A handler that pushes its undo entry although the record was not written.
Finish_PushAnyway(cmd, in, o, t) ==
  /\ repo' = o.repo
  /\ logFiles' = IF o.write THEN WriteOperation(logFiles, o.op, t)
                 ELSE logFiles
  /\ undoFile' = IF o.push \/ o.err = "write" THEN PushUndoFile(undoFile, o.undo, t)
                 ELSE undoFile
  /\ now' = t
  /\ cli' = [cmd |-> cmd, apply |-> in.apply, err |-> o.err,
             printed |-> o.printed, plan |-> o.plan, log |-> o.log,
             message |-> o.message, msg |-> o.msg,
             from |-> IF cmd = "transfer" THEN in.from ELSE EmptyStr,
             to |-> in.to,
             rev |-> IF cmd = "restore" THEN in.commit ELSE in.range,
             in |-> in,
             before |-> [undo |-> undoFile, logs |-> logFiles, repo |-> repo]]
  /\ UNCHANGED <<ret, auxVars, fn, app>>

\* The store and the repository after a handler's outcome o; the record and
\* the undo entry are stamped at t.
Finish(cmd, in, o, t) ==
  /\ repo' = o.repo
  /\ logFiles' = IF o.write THEN WriteOperation(logFiles, o.op, t)
                 ELSE logFiles
  /\ undoFile' = IF o.push THEN PushUndoFile(undoFile, o.undo, t)
                 ELSE undoFile
  /\ now' = t
  /\ cli' = [cmd |-> cmd, apply |-> in.apply, err |-> o.err,
             printed |-> o.printed, plan |-> o.plan, log |-> o.log,
             message |-> o.message, msg |-> o.msg,
             from |-> IF cmd = "transfer" THEN in.from ELSE EmptyStr,
             to |-> in.to,
             rev |-> IF cmd = "restore" THEN in.commit ELSE in.range,
             in |-> in,
             before |-> [undo |-> undoFile, logs |-> logFiles, repo |-> repo]]
  /\ UNCHANGED <<ret, auxVars, fn, app>>

\* --apply is tried only while the bounds leave room for its effects.
RoomToApply == Cardinality(logFiles) < MaxOps /\ repo.made < MaxOps

CallTransfer ==
  \E in \in TransferInputs :
    LET o == TransferCmd(repo, in)
    IN /\ in.apply => RoomToApply
       /\ \E t \in Times : (~o.write => t = now) /\ Finish("transfer", in, o, t)

CallRevert ==
  \E in \in RevertInputs :
    LET o == RevertCmd(repo, in)
    IN /\ in.apply => RoomToApply
       /\ \E t \in Times : (~o.write => t = now) /\ Finish("revert", in, o, t)

CallRestore ==
  \E in \in RestoreInputs, t \in Times :
    LET o == RestoreCmd(repo, in, t)
    IN /\ in.apply => RoomToApply
       /\ ~o.write => t = now
       /\ Finish("restore", in, o, t)

\* The user cleans a tree that a halted operation left dirty (git
\* cherry-pick --abort, git revert --abort, git reset --hard).
UserResolve ==
  /\ repo.dirty
  /\ repo' = [repo EXCEPT !.dirty = FALSE]
  /\ cli' = [NoCli EXCEPT !.cmd = "user"]
  /\ UNCHANGED <<undoFile, now, ret, auxVars, logFiles, fn, app>>

CliNext == CallTransfer \/ CallRevert \/ CallRestore \/ UserResolve

CliSpec == Init /\ [][CliNext]_vars

\* ------------------- UndoCliSpec: gitcherry undo and gitcherry redo over a
\* stack that PushUndo fills
\* An undo/redo handler that resets the checked-out branch to the head the
\* entry names.
undoRedoGit_Reset(r, head) ==
  LET args == << <<"reset">>, <<"--hard">>, head >>
      g == gitRun(r, args, "ok")
  IN [repo |-> g.repo, log |-> << Ran(args, g.ok) >>]

\* The git commands newUndoCmd and newRedoCmd run once the store has
\* returned the entry: none, the reset is left to the user.
undoRedoGit(r, head) == [repo |-> r, log |-> <<>>]

\* The two lines newUndoCmd (word "Undo") and newRedoCmd (word "Redo") print
\* for an entry.
entryLines(word, entry) ==
  << <<word, SP, "entry:", SP, "branch=">> \o entry.Source
       \o <<SP, "before=">> \o entry.BeforeHead
       \o <<SP, "after=">> \o entry.AfterHead,
     <<"Please manually", SP,
       IF word = "Undo" THEN "reset" ELSE "adjust", SP,
       "your repository as needed (e.g., git reset --hard).">> >>

\* What an undo or redo command leaves in cli: the store call it made is in
\* ret (next), the git commands it ran are in log.
undoRedoOutcome(cmd, word, pre, next, git) ==
  [NoCli EXCEPT
     !.cmd = cmd,
     !.err = IF pre.err # "none" THEN pre.err
             ELSE IF next.err THEN "save" ELSE "none",
     !.printed = IF pre.err # "none" \/ next.err THEN <<>>
                 ELSE IF ~next.found
                 THEN << <<"No", SP, word, SP, "information available.">> >>
                 ELSE entryLines(IF word = "undo" THEN "Undo" ELSE "Redo",
                                 next.entry),
     !.log = pre.log \o git.log,
     !.before = [undo |-> undoFile, logs |-> logFiles, repo |-> repo]]

\* gitcherry undo: PersistentPreRunE, logs.Undo, print.
CallUndoCmd ==
  \E fail \in {"none"} \cup PreFails, t \in Times, ok \in BOOLEAN :
    LET pre == PreRun(repo, fail)
    IN /\ IF pre.err # "none"
          THEN /\ t = now /\ ok
               /\ UNCHANGED <<undoFile, now, ret, repo>>
               /\ cli' = undoRedoOutcome("undo", "undo", pre, ret,
                                         undoRedoGit(repo, EmptyStr))
          ELSE /\ Undo(t, ok)
               /\ LET git == IF ret'.found
                             THEN undoRedoGit(repo, ret'.entry.BeforeHead)
                             ELSE [repo |-> repo, log |-> <<>>]
                  IN /\ repo' = git.repo
                     /\ cli' = undoRedoOutcome("undo", "undo", pre, ret', git)
       /\ UNCHANGED <<auxVars, logFiles, fn, app>>

\* gitcherry redo: PersistentPreRunE, logs.Redo, print.
CallRedoCmd ==
  \E fail \in {"none"} \cup PreFails, t \in Times, ok \in BOOLEAN :
    LET pre == PreRun(repo, fail)
    IN /\ IF pre.err # "none"
          THEN /\ t = now /\ ok
               /\ UNCHANGED <<undoFile, now, ret, repo>>
               /\ cli' = undoRedoOutcome("redo", "redo", pre, ret,
                                         undoRedoGit(repo, EmptyStr))
          ELSE /\ Redo(t, ok)
               /\ LET git == IF ret'.found
                             THEN undoRedoGit(repo, ret'.entry.AfterHead)
                             ELSE [repo |-> repo, log |-> <<>>]
                  IN /\ repo' = git.repo
                     /\ cli' = undoRedoOutcome("redo", "redo", pre, ret', git)
       /\ UNCHANGED <<auxVars, logFiles, fn, app>>

\* An applied operation pushes its entry (logsPushUndoFn in the handlers).
HandlerPushUndo ==
  /\ RoomToPush
  /\ \E e \in TestEntries, t \in Times, ok \in BOOLEAN : PushUndo(e, t, ok)
  /\ cli' = [NoCli EXCEPT !.cmd = "push"]
  /\ UNCHANGED <<auxVars, logFiles, repo, fn, app>>

UndoCliNext == HandlerPushUndo \/ CallUndoCmd \/ CallRedoCmd

UndoCliSpec == Init /\ [][UndoCliNext]_vars

\* ------------------------------ PlanSpec: the plan builders called directly
\* (TestPlan, TestPlanCommands)
PlanBranches == {Main, Feature, Backup}
PlanHashes == {<<"a1b2c3">>, <<"d4e5f6">>, <<"abc123">>}
PlanMessages == MessageInputs \cup {<<"hotfix">>, <<"a", BS, "b">>}

PlanInit ==
  /\ Init
  /\ undoFile = MissingFile

\* One builder call: its arguments and the plan it returned.
Planned(name, source, target, startHash, endHash, message, out) ==
  /\ fn' = [name |-> name, source |-> source, target |-> target,
            startHash |-> startHash, endHash |-> endHash,
            message |-> message, out |-> out]
  /\ UNCHANGED <<undoFile, now, ret, auxVars, logFiles, repo, cli, app>>

CallTransferPlan ==
  \E source, target \in PlanBranches, startHash, endHash \in PlanHashes,
     message \in PlanMessages :
    Planned("transfer.Plan", source, target, startHash, endHash, message,
            transferPlan(source, target, startHash, endHash, message))

CallRevertPlan ==
  \E source, target \in PlanBranches, startHash, endHash \in PlanHashes,
     message \in PlanMessages :
    Planned("revert.Plan", source, target, startHash, endHash, message,
            revertPlan(source, target, startHash, endHash, message))

CallRestorePlan ==
  \E branchName \in PlanBranches, commitHash \in PlanHashes :
    Planned("restore.Plan", EmptyStr, branchName, commitHash, commitHash,
            EmptyStr, restorePlan(branchName, commitHash))

PlanNext == CallTransferPlan \/ CallRevertPlan \/ CallRestorePlan

PlanSpec == PlanInit /\ [][PlanNext]_vars

\* ----------------------------- LogSpec: WriteOperation called repeatedly by
\* one process on one storage root (TestWriteOperationPersistsJSON)
LogOps ==
  {Operation(Main, Feature, <<"c1">>, <<"c2">>, <<"m">>,
             transferPlan(Main, Feature, <<"c1">>, <<"c2">>, <<"m">>), ts) :
     ts \in {ZeroTime, 1}}
    \cup {Operation(Backup, Backup, <<"c1">>, <<"c1">>, <<"r">>,
                     restorePlan(Backup, <<"c1">>), ZeroTime)}

\* The WriteOperation calls that have succeeded so far.
Written == IF fn.name = "WriteOperation" THEN fn.count ELSE 0

\* WriteOperation(op) at time t; ok = FALSE is a failing MkdirAll or
\* MarshalIndent, which returns the error before any file is touched.
CallWriteOperation ==
  /\ Written < MaxLogs
  /\ \E op \in LogOps, t \in Times, ok \in BOOLEAN :
       /\ logFiles' = IF ok THEN WriteOperation(logFiles, op, t) ELSE logFiles
       /\ now' = t
       /\ fn' = [name |-> "WriteOperation", op |-> op, at |-> t,
                 err |-> ~ok, count |-> Written + (IF ok THEN 1 ELSE 0),
                 before |-> logFiles]
  /\ UNCHANGED <<undoFile, ret, auxVars, repo, cli, app>>

LogNext == CallWriteOperation

LogSpec == PlanInit /\ [][LogNext]_vars

\* ------------- ResolverSpec: parseRangeSpec and collectCommitsForRange called
\* directly, the range queries answered by git or failing
\* The history the queries run against: r0 is the root commit, c1 its
\* child, c2 the child of c1.
Chain == << <<"r0">>, <<"c1">>, <<"c2">> >>

ChainHashes == {Chain[i] : i \in 1..Len(Chain)}

ChainIndex(hash) == CHOOSE i \in 1..Len(Chain) : Chain[i] = hash

\* git rev-list --reverse start^..end (inclusive) or start..end on Chain:
\* the commits reachable from end and not from the excluded commit, oldest
\* first; start^ of the root commit is an unknown revision.
gitRevList(start, end, inclusive) ==
  LET excluded == IF inclusive THEN ChainIndex(start) - 1
                  ELSE ChainIndex(start)
  IN IF inclusive /\ ChainIndex(start) = 1 THEN RevFail
     ELSE [err |-> FALSE,
           lines |-> SubSeq(Chain, excluded + 1, ChainIndex(end))]

\* What a range query is answered with: git's answer, or one of
\* RevListOutputs (failure, nothing, the two endpoints).
RevListAnswers(start, end, inclusive) ==
  RevListOutputs(start, end) \cup {gitRevList(start, end, inclusive)}

CallCollectCommits ==
  \E start, end \in ChainHashes :
    \E out1 \in RevListAnswers(start, end, TRUE),
       out2 \in RevListAnswers(start, end, FALSE) :
      /\ fn' = [name |-> "collectCommitsForRange", start |-> start,
                end |-> end, out1 |-> out1, out2 |-> out2,
                out |-> collectCommitsForRange(start, end, out1, out2)]
      /\ UNCHANGED <<undoFile, now, ret, auxVars, logFiles, repo, cli, app>>

\* The parts range strings are put together from.
RangeEndpoints == {EmptyStr, <<"c1">>, <<"c2">>}
RangePadding == {EmptyStr, <<SP>>}

\* parseRangeSpec on left \o (".." or nothing) \o right, padded.
CallParseRangeSpec ==
  \E left, right \in RangeEndpoints, dots \in BOOLEAN,
     lpad, rpad \in RangePadding, allowSingle \in BOOLEAN :
    LET raw == lpad \o left \o (IF dots THEN <<DOT, DOT>> ELSE EmptyStr)
                 \o right \o rpad
    IN /\ fn' = [name |-> "parseRangeSpec", raw |-> raw, left |-> left,
                 right |-> right, dots |-> dots, allowSingle |-> allowSingle,
                 out |-> parseRangeSpec(raw, allowSingle)]
       /\ UNCHANGED <<undoFile, now, ret, auxVars, logFiles, repo, cli, app>>

ResolverNext == CallCollectCommits \/ CallParseRangeSpec

ResolverSpec == PlanInit /\ [][ResolverNext]_vars

\* ------------- DetectorSpec: DetectDuplicates called directly, git log and
\* git patch-id answered by git or failing
\* The commits the detector is asked about and finds on the target.
DupHashes == {<<"h1">>, <<"h2">>, <<"h3">>}

\* What runner.PatchID answers for a commit: a patch-id, or NoPatchID when
\* the call fails or prints nothing.
NoPatchID == EmptyStr
PatchIDs == {NoPatchID, <<"p1">>, <<"p2">>}

\* DetectDuplicates with the log answered at once and every hash taken equal
\* to its patch-id.
DetectDuplicates_ByHash(logOut, PatchID, commits) ==
  IF commits = <<>> THEN [err |-> FALSE, duplicates |-> <<>>]
  ELSE IF logOut.err THEN [err |-> TRUE, duplicates |-> <<>>]
  ELSE LET patches == {logOut.lines[i] : i \in 1..Len(logOut.lines)}
           IsDup(commit) == commit \in patches
       IN [err |-> FALSE, duplicates |-> SelectSeq(commits, IsDup)]

\* DetectDuplicates where a failing patch-id call ends the detection.
DetectDuplicates_AbortOnPatchID(logOut, PatchID, commits) ==
  IF commits = <<>> THEN [err |-> FALSE, duplicates |-> <<>>]
  ELSE IF logOut.err THEN [err |-> TRUE, duplicates |-> <<>>]
  ELSE LET targetHashes == logOut.lines
           asked == {targetHashes[i] : i \in 1..Len(targetHashes)}
                      \cup {commits[i] : i \in 1..Len(commits)}
           patches == {PatchID[targetHashes[i]] :
                         i \in 1..Len(targetHashes)} \ {NoPatchID}
           IsDup(commit) == PatchID[commit] \in patches
       IN IF \E h \in asked : PatchID[h] = NoPatchID
          THEN [err |-> TRUE, duplicates |-> <<>>]
          ELSE [err |-> FALSE, duplicates |-> SelectSeq(commits, IsDup)]

\* DetectDuplicates(runner, target, commits): logOut is the answer to
\* git log --pretty=%H target, PatchID the answer of runner.PatchID per hash.
\* No candidates: nothing is asked.  A failing log is returned as an error.
\* patches collects the patch-ids of the target's commits, skipping the
\* commits whose patch-id call failed; the candidates are then walked in
\* order, skipping those without a patch-id and keeping those whose patch-id
\* is in patches.
DetectDuplicates(logOut, PatchID, commits) ==
  IF commits = <<>> THEN [err |-> FALSE, duplicates |-> <<>>]
  ELSE IF logOut.err THEN [err |-> TRUE, duplicates |-> <<>>]
  ELSE LET targetHashes == logOut.lines
           patches == {PatchID[targetHashes[i]] :
                         i \in 1..Len(targetHashes)} \ {NoPatchID}
           IsDup(commit) == /\ PatchID[commit] # NoPatchID
                            /\ PatchID[commit] \in patches
       IN [err |-> FALSE, duplicates |-> SelectSeq(commits, IsDup)]

\* The candidate lists: up to two distinct commits, in either order.
DupCandidates ==
  {<<>>} \cup {<<h>> : h \in DupHashes}
         \cup {<<g, h>> : <<g, h>> \in {p \in DupHashes \X DupHashes :
                                          p[1] # p[2]}}

\* What git log --pretty=%H target is answered with: a failure, or the
\* target's commits, newest first.
TargetLogs ==
  {RevFail, RevNone, [err |-> FALSE, lines |-> << <<"h1">> >>],
   [err |-> FALSE, lines |-> << <<"h3">> >>],
   [err |-> FALSE, lines |-> << <<"h2">>, <<"h1">> >>]}

CallDetectDuplicates ==
  \E commits \in DupCandidates, logOut \in TargetLogs,
     PatchID \in [DupHashes -> PatchIDs] :
    /\ fn' = [name |-> "DetectDuplicates", commits |-> commits,
              logOut |-> logOut, PatchID |-> PatchID,
              out |-> DetectDuplicates(logOut, PatchID, commits)]
    /\ UNCHANGED <<undoFile, now, ret, auxVars, logFiles, repo, cli, app>>

DetectorNext == CallDetectDuplicates

DetectorSpec == PlanInit /\ [][DetectorNext]_vars

\* ------------- DirtySpec: every command of the root command run on a
\* working tree that holds uncommitted changes
\* The store before the commands: nothing pushed yet, or one entry pushed by
\* an earlier operation.
DirtyInit ==
  /\ undoFile \in {MissingFile, PushUndoFile(MissingFile, TestEntrySeq[1], 1)}
  /\ now = 1
  /\ ret = NoCall
  /\ lc = LcIdle
  /\ thr = ThrIdle
  /\ storageMu = MuFree
  /\ logFiles = {}
  /\ repo = InitRepo
  /\ cli = NoCli
  /\ fn = NoFn
  /\ app = NewApp

\* The user changes, stages or adds a file: git status --porcelain prints
\* something from now on.
UserEdits ==
  /\ ~repo.dirty
  /\ repo' = [repo EXCEPT !.dirty = TRUE]
  /\ cli' = [NoCli EXCEPT !.cmd = "user"]
  /\ UNCHANGED <<undoFile, now, ret, auxVars, logFiles, fn, app>>

\* gitcherry with no subcommand: PersistentPreRunE, then the root RunE up to
\* the start of the TUI session (the dry-run notice, runner.Run).
CallRoot ==
  \E fail \in {"none"} \cup PreFails, apply \in BOOLEAN :
    LET pre == PreRun(repo, fail)
    IN /\ cli' = [NoCli EXCEPT
                    !.cmd = "tui", !.apply = apply, !.err = pre.err,
                    !.log = pre.log,
                    !.printed =
                      IF pre.err = "none" /\ ~isApply(apply)
                      THEN << <<"[dry-run] session; use --apply to execute">> >>
                      ELSE <<>>,
                    !.before = [undo |-> undoFile, logs |-> logFiles,
                                repo |-> repo]]
       /\ UNCHANGED <<undoFile, now, ret, auxVars, logFiles, repo, fn, app>>

DirtyNext ==
  \/ UserEdits
  \/ repo.dirty /\ CallRoot
  \/ repo.dirty /\ CallTransfer
  \/ repo.dirty /\ CallRevert
  \/ repo.dirty /\ CallRestore
  \/ repo.dirty /\ CallUndoCmd
  \/ repo.dirty /\ CallRedoCmd

DirtySpec == DirtyInit /\ [][DirtyNext]_vars

\* ------------- CorruptSpec: the store calls on an undo file that cannot be
\* read, cannot be parsed, or holds a position outside its history
\* Two entries pushed by earlier operations.
StoredHistory ==
  << StampEntry(TestEntrySeq[1], 1), StampEntry(TestEntrySeq[2], 1) >>

\* The files the calls start on: an unreadable and an unparsable file that
\* hold a stack, and parsable files whose position is below 0 or past the
\* end of the history.
DamagedFiles ==
  {UnreadableFile(undoState(StoredHistory, 1)),
   InvalidFile(undoState(StoredHistory, 1)),
   JsonFile(undoState(StoredHistory, 0 - 1)),
   JsonFile(undoState(StoredHistory, Len(StoredHistory) + 1))}

CorruptInit ==
  /\ undoFile \in DamagedFiles
  /\ now = 1
  /\ ret = NoCall
  /\ lc = LcIdle
  /\ thr = ThrIdle
  /\ storageMu = MuFree
  /\ logFiles = {}
  /\ repo = InitRepo
  /\ cli = NoCli
  /\ fn = NoFn
  /\ app = NewApp

CorruptNext == CallPushUndo \/ CallUndo \/ CallRedo

CorruptSpec == CorruptInit /\ [][CorruptNext]_vars

\* ------------- ExecSpec: one executor attempt, one git command at a time,
\* while the caller's context may be cancelled at any moment
\* The git invocations of an attempt: runCommands splits the commands of
\* transfer.Plan, revert.Execute and restore.Execute pass their own.
Invocations(op) ==
  CASE op = "transfer" ->
         LET commands == transferPlan(Main, Feature, <<"c1">>, <<"c2">>,
                                      <<"m">>)
         IN [i \in 1..Len(commands) |-> Tail(splitCommand(commands[i]).args)]
    [] op = "revert" ->
         revertExecuteArgs(Main, <<"c2">>, <<"c2">>, <<"m">>)
    [] OTHER -> restoreExecuteArgs(Backup, <<"c1">>)

\* The executor's frame: the invocations, the index of the next one, what
\* has run, and the context (done once cancelled; cancelledAt counts the
\* invocations that had run by then, -1 while not cancelled).
Attempt(op, failAt, kind) ==
  [name |-> "Execute", op |-> op, invs |-> Invocations(op), i |-> 1,
   log |-> <<>>, failAt |-> failAt, kind |-> kind, pc |-> "run",
   err |-> FALSE, ctxDone |-> FALSE, cancelledAt |-> 0 - 1]

Executing == fn.name = "Execute" /\ fn.pc = "run"

\* The executor is entered: the handler calls runCommands, revert.Execute or
\* restore.Execute on a clean tree.
StartExecute ==
  /\ ~Executing
  /\ ~repo.dirty /\ repo.made < MaxOps
  /\ \E op \in Kinds, failAt \in 0..3, kind \in {"fatal", "conflict"} :
       /\ failAt <= Len(Invocations(op))
       /\ failAt = 0 => kind = "fatal"
       /\ fn' = Attempt(op, failAt, kind)
  /\ UNCHANGED <<undoFile, now, ret, auxVars, logFiles, repo, cli, app>>

\* An executor that looks at the context before each command and gives up
\* once it is cancelled.
ExecStep_ChecksContext ==
  /\ Executing
  /\ IF fn.ctxDone
     THEN /\ fn' = [fn EXCEPT !.pc = "done", !.err = TRUE]
          /\ repo' = repo
     ELSE LET args == fn.invs[fn.i]
              r == gitRun(repo, args,
                          IF fn.i = fn.failAt THEN fn.kind ELSE "ok")
          IN /\ repo' = r.repo
             /\ fn' = [fn EXCEPT
                         !.log = Append(@, Ran(args, r.ok)),
                         !.i = @ + 1,
                         !.err = ~r.ok,
                         !.pc = IF ~r.ok \/ fn.i = Len(fn.invs) THEN "done"
                                ELSE "run"]
  /\ UNCHANGED <<undoFile, now, ret, auxVars, logFiles, cli, app>>

\* One pass of the loop of runCommands, or one statement of revert.Execute or
\* restore.Execute: run the next git command to its end; a failure ends the
\* attempt, the last success ends it too.  The context is not consulted.
ExecStep ==
  /\ Executing
  /\ LET args == fn.invs[fn.i]
         r == gitRun(repo, args, IF fn.i = fn.failAt THEN fn.kind ELSE "ok")
     IN /\ repo' = r.repo
        /\ fn' = [fn EXCEPT
                    !.log = Append(@, Ran(args, r.ok)),
                    !.i = @ + 1,
                    !.err = ~r.ok,
                    !.pc = IF ~r.ok \/ fn.i = Len(fn.invs) THEN "done"
                           ELSE "run"]
  /\ UNCHANGED <<undoFile, now, ret, auxVars, logFiles, cli, app>>

\* The caller's context is cancelled (signal.NotifyContext on SIGINT or
\* SIGTERM) while the attempt is under way.
CancelContext ==
  /\ Executing
  /\ ~fn.ctxDone
  /\ fn' = [fn EXCEPT !.ctxDone = TRUE, !.cancelledAt = Len(fn.log)]
  /\ UNCHANGED <<undoFile, now, ret, auxVars, logFiles, repo, cli, app>>

ExecNext == StartExecute \/ ExecStep \/ CancelContext

ExecSpec == PlanInit /\ [][ExecNext]_vars

\* Each git subprocess is waited for and returns, so a started attempt keeps
\* taking steps.
ExecFairSpec == ExecSpec /\ WF_vars(ExecStep)

\* ------------- RenderSpec: renderTemplate called directly; Go ranges over
\* the replacements map in an order that differs from run to run
\* The placeholders, each one character of the model's strings.
SourceKey == "{source}"
TargetKey == "{target}"
RangeKey == "{range}"

\* strings.ReplaceAll(str, key, value) for a key that is one element of str.
ReplaceAll(str, key, value) ==
  Concat([i \in 1..Len(str) |-> IF str[i] = key THEN value ELSE <<str[i]>>])

\* The orders in which the range statement may visit the three keys.
KeyOrders ==
  {o \in [1..3 -> {SourceKey, TargetKey, RangeKey}] :
     \A i, j \in 1..3 : i # j => o[i] # o[j]}

\* renderTemplate: ReplaceAll for each key of the replacements map, in the
\* order the map iteration visits them.
renderTemplate(template, source, target, rangeSpec, order) ==
  LET replacements == [k \in {SourceKey, TargetKey, RangeKey} |->
                         CASE k = SourceKey -> source
                           [] k = TargetKey -> target
                           [] OTHER -> rangeSpec]
      step1 == ReplaceAll(template, order[1], replacements[order[1]])
      step2 == ReplaceAll(step1, order[2], replacements[order[2]])
  IN ReplaceAll(step2, order[3], replacements[order[3]])

\* Templates: the default one and two shorter ones.
Templates ==
  {<<"[Transfer]", SP, SourceKey, SP, "->", SP, TargetKey, SP, RangeKey>>,
   <<SourceKey, SP, TargetKey>>,
   <<RangeKey>>}

\* Branch names and ranges, some holding the text of a placeholder.
TemplateBranches == {Main, <<"fix-", TargetKey>>, <<RangeKey>>}
TemplateRanges == {<<"c1", DOT, DOT, "c2">>, <<SourceKey, DOT, DOT, "c2">>}

CallRenderTemplate ==
  \E template \in Templates, source, target \in TemplateBranches,
     rangeSpec \in TemplateRanges, order \in KeyOrders :
    /\ fn' = [name |-> "renderTemplate", template |-> template,
              source |-> source, target |-> target, rangeSpec |-> rangeSpec,
              order |-> order,
              out |-> renderTemplate(template, source, target, rangeSpec,
                                     order)]
    /\ UNCHANGED <<undoFile, now, ret, auxVars, logFiles, repo, cli, app>>

RenderNext == CallRenderTemplate

RenderSpec == PlanInit /\ [][RenderNext]_vars

\* ------------- PolicySpec: PersistentPreRunE with the --on-duplicate flag,
\* the configured value and stdin varied
\* strings.ToLower on the words the policy values are written with.
ToLower(str) ==
  [i \in 1..Len(str) |->
     CASE str[i] = "SKIP" -> "skip"
       [] str[i] = "Ask" -> "ask"
       [] OTHER -> str[i]]

Policies == {<<"ask">>, <<"skip">>, <<"apply">>}

\* The effective duplicate policy, main.go lines 128-144: the flag, trimmed
\* and lowered; when that is empty the configured value, trimmed and lowered,
\* or ask when that is empty too, or skip when the flag was not given and
\* stdin is not a terminal; then the value is checked.
effectiveDuplicate(flag, changed, configured, interactive) ==
  LET fromFlag == ToLower(TrimSpace(flag))
      fromConfig == ToLower(TrimSpace(configured))
      effective ==
        IF fromFlag # EmptyStr THEN fromFlag
        ELSE IF ~changed /\ ~interactive THEN <<"skip">>
        ELSE IF fromConfig = EmptyStr THEN <<"ask">>
        ELSE fromConfig
  IN [err |-> effective \notin Policies, mode |-> effective]

\* PersistentPreRunE: config.Load, the duplicate policy, git status.
PersistentPreRunE(r, in) ==
  LET policy == effectiveDuplicate(in.flag, in.changed, in.configured,
                                   in.interactive)
      pre == PreRun(r, in.pre)
  IN IF in.pre = "config" THEN [err |-> "config", log |-> <<>>,
                                mode |-> EmptyStr]
     ELSE IF policy.err THEN [err |-> "on-duplicate", log |-> <<>>,
                              mode |-> EmptyStr]
     ELSE [err |-> pre.err, log |-> pre.log,
           mode |-> IF pre.err = "none" THEN policy.mode ELSE EmptyStr]

\* Values of --on-duplicate and of the configuration's onDuplicate.
PolicyValues ==
  {EmptyStr, <<"ask">>, <<"skip">>, <<"apply">>, <<"SKIP">>,
   <<SP, "apply", SP>>, <<"bogus">>, <<SP>>}

\* The invocations: the flag absent (its default is the empty string) or
\* given with any value.
PolicyInputs ==
  {[flag |-> f, changed |-> c, configured |-> g, interactive |-> i,
    pre |-> p] :
     f \in PolicyValues, c \in BOOLEAN, g \in PolicyValues, i \in BOOLEAN,
     p \in {"none", "config"}}

\* A command is started: the pre-run, and the command's body when the
\* pre-run returned no error.
CallPersistentPreRunE ==
  \E in \in PolicyInputs :
    /\ ~in.changed => in.flag = EmptyStr
    /\ LET out == PersistentPreRunE(repo, in)
       IN fn' = [name |-> "PersistentPreRunE", in |-> in, out |-> out,
                 dirty |-> repo.dirty, bodyRuns |-> out.err = "none"]
    /\ UNCHANGED <<undoFile, now, ret, auxVars, logFiles, repo, cli, app>>

PolicyNext == CallPersistentPreRunE \/ UserEdits \/ UserResolve

PolicySpec == PlanInit /\ [][PolicyNext]_vars

\* ------------- LogConcSpec: WriteOperation step by step, by threads of two
\* processes that share the storage root
\* The operation thread t records; its timestamp is zero.
ThreadOperation(t) ==
  Operation(Main, Feature, <<"c1">>, <<"c2">>,
            CASE t = 1 -> <<"first">> [] t = 2 -> <<"second">>
              [] OTHER -> <<"third">>,
            <<>>, ZeroTime)

\* A thread inside WriteOperation: op is the operation as stamped, path the
\* file name it has settled on.
InWrite(pc, op, path) ==
  [pc |-> pc, state |-> undoState(<<>>, 0), op |-> op, path |-> path]

\* The wall clock moves on to the next second.
Tick ==
  /\ now < MaxClock
  /\ now' = now + 1
  /\ UNCHANGED <<undoFile, ret, auxVars, cliVars>>

\* storageMu.Lock(), then op.Timestamp = time.Now().UTC()
WLock(t) ==
  /\ thr[t].pc = "idle"
  /\ storageMu[ProcOf(t)] = 0
  /\ storageMu' = [storageMu EXCEPT ![ProcOf(t)] = t]
  /\ thr' = [thr EXCEPT
               ![t] = InWrite("locked",
                              [ThreadOperation(t) EXCEPT !.Timestamp = now],
                              <<0, 0>>)]
  /\ UNCHANGED <<undoFile, now, ret, lc, cliVars>>

\* os.Stat(path) and the loop over the suffixed candidates: the first name
\* that does not exist at this moment.
WStat(t) ==
  /\ thr[t].pc = "locked"
  /\ thr' = [thr EXCEPT
               ![t] = InWrite("chosen", thr[t].op,
                              LogPath(logFiles, thr[t].op.Timestamp))]
  /\ UNCHANGED <<undoFile, now, ret, lc, storageMu, cliVars>>

\* os.WriteFile(path, data, 0o600): the file is created, or replaced when it
\* exists by now.
WWrite(t) ==
  /\ thr[t].pc = "chosen"
  /\ logFiles' = {f \in logFiles : f.name # thr[t].path}
                   \cup {[name |-> thr[t].path, op |-> thr[t].op]}
  /\ thr' = [thr EXCEPT ![t].pc = "written"]
  /\ UNCHANGED <<undoFile, now, ret, lc, storageMu, repo, cli, fn, app>>

\* defer storageMu.Unlock()
WUnlock(t) ==
  /\ thr[t].pc = "written"
  /\ storageMu' = [storageMu EXCEPT ![ProcOf(t)] = 0]
  /\ thr' = [thr EXCEPT ![t].pc = "done"]
  /\ UNCHANGED <<undoFile, now, ret, lc, cliVars>>

LogConcNext ==
  \/ Tick
  \/ \E t \in Threads : WLock(t) \/ WStat(t) \/ WWrite(t) \/ WUnlock(t)

LogConcSpec == PlanInit /\ [][LogConcNext]_vars

\* ------------- TuiSpec: the App's branch and commit-range selection, driven
\* by the key handlers
\* The fields of the App, without the record of the last handler.
AppFields(a) ==
  [branchStage |-> a.branchStage, branchSource |-> a.branchSource,
   branchTarget |-> a.branchTarget, commits |-> a.commits,
   commitStart |-> a.commitStart, commitEnd |-> a.commitEnd,
   listItems |-> a.listItems]

\* previewCommitSelectionPrompt: the commit list shows one line, the prompt.
previewCommitSelectionPrompt(a) == [a EXCEPT !.listItems = 1]

\* The history the TUI looks at: main is at c0, release at c1 and feature
\* at c3, each commit the child of the one before.
TuiChain == << <<"c0">>, <<"c1">>, <<"c2">>, <<"c3">> >>
Release == <<"release">>
TuiHead(branch) ==
  CASE branch = Main -> 1 [] branch = Feature -> 4 [] OTHER -> 2

\* git.CommitsBetween(base, head): git rev-list --reverse base..head, the
\* commits reachable from head and not from base, oldest first; fail is git
\* exiting nonzero.
CommitsBetween(base, head, fail) ==
  IF TrimSpace(base) = EmptyStr \/ TrimSpace(head) = EmptyStr \/ fail
  THEN [err |-> TRUE, commits |-> <<>>]
  ELSE [err |-> FALSE,
        commits |-> SubSeq(TuiChain, TuiHead(TrimSpace(base)) + 1,
                           TuiHead(TrimSpace(head)))]

\* showCommitListForSource and commitTargetReset: the range is cleared and
\* the commits are what commitsBetweenFunc(target, source) answers; the
\* list shows them, or one line when there are none or the call failed.
showCommitListForSource(a, fail) ==
  LET answer == CommitsBetween(a.branchTarget, a.branchSource, fail)
  IN [a EXCEPT !.commitStart = 0 - 1, !.commitEnd = 0 - 1,
               !.commits = answer.commits,
               !.listItems = IF answer.err \/ Len(answer.commits) = 0 THEN 1
                             ELSE Len(answer.commits)]

\* A handleBranchSelection whose third selection keeps the old target.
handleBranchSelection_KeepTarget(a, branch, fail) ==
  LET name == TrimSpace(branch)
  IN IF name = EmptyStr THEN a
     ELSE CASE a.branchStage = 0 ->
                 previewCommitSelectionPrompt(
                   [a EXCEPT !.branchSource = name, !.branchTarget = EmptyStr,
                             !.branchStage = 1])
            [] a.branchStage = 1 ->
                 showCommitListForSource(
                   [a EXCEPT !.branchTarget = name, !.branchStage = 2],
                   fail)
            [] OTHER ->
                 previewCommitSelectionPrompt(
                   [a EXCEPT !.branchSource = name, !.branchStage = 1])

\* App.handleBranchSelection
handleBranchSelection(a, branch, fail) ==
  LET name == TrimSpace(branch)
  IN IF name = EmptyStr THEN a
     ELSE CASE a.branchStage = 0 ->
                 previewCommitSelectionPrompt(
                   [a EXCEPT !.branchSource = name, !.branchTarget = EmptyStr,
                             !.branchStage = 1])
            [] a.branchStage = 1 ->
                 showCommitListForSource(
                   [a EXCEPT !.branchTarget = name, !.branchStage = 2],
                   fail)
            [] OTHER ->
                 previewCommitSelectionPrompt(
                   [a EXCEPT !.branchSource = name, !.branchTarget = EmptyStr,
                             !.branchStage = 1])

\* App.markCommitStart; index counts from 0 as in the code.
markCommitStart(a, index) ==
  IF index < 0 \/ index >= Len(a.commits) THEN a
  ELSE [a EXCEPT !.commitStart = index, !.commitEnd = index]

\* A confirmCommitRange that always takes the index as the end.
confirmCommitRange_NoSwap(a, index, current) ==
  LET idx == IF index < 0 \/ index >= Len(a.commits) THEN current ELSE index
      marked == IF a.commitStart < 0 \/ a.commitStart >= Len(a.commits)
                THEN markCommitStart(a, idx) ELSE a
  IN IF Len(a.commits) = 0 THEN a
     ELSE IF idx < 0 \/ idx >= Len(a.commits) THEN a
     ELSE [marked EXCEPT !.commitEnd = idx]

\* App.confirmCommitRange; current is CommitList.GetCurrentItem().
confirmCommitRange(a, index, current) ==
  LET idx == IF index < 0 \/ index >= Len(a.commits) THEN current ELSE index
      marked == IF a.commitStart < 0 \/ a.commitStart >= Len(a.commits)
                THEN markCommitStart(a, idx) ELSE a
  IN IF Len(a.commits) = 0 THEN a
     ELSE IF idx < 0 \/ idx >= Len(a.commits) THEN a
     ELSE IF idx < marked.commitStart
          THEN [marked EXCEPT !.commitEnd = marked.commitStart,
                              !.commitStart = idx]
          ELSE [marked EXCEPT !.commitEnd = idx]

\* App.SelectedRange
SelectedRange(a) ==
  IF a.commitStart < 0 \/ a.commitEnd < 0
     \/ a.commitStart >= Len(a.commits) \/ a.commitEnd >= Len(a.commits)
  THEN NoRange
  ELSE [start |-> a.commits[a.commitStart + 1],
        end |-> a.commits[a.commitEnd + 1], ok |-> TRUE]

\* What the branch list offers, and blank lines.
BranchChoices ==
  {Main, Feature, Release, <<SP, "feature", SP>>, EmptyStr, <<SP>>}

\* The indices the handlers are called with: one below and one past the
\* longest list.
CommitIndices == (0 - 1)..3

\* Enter on the branch list.
SelectBranch ==
  \E branch \in BranchChoices, fail \in BOOLEAN :
    /\ app.branchStage # 1 => ~fail
    /\ app' = [handleBranchSelection(app, branch, fail) EXCEPT
                 !.last = [name |-> "handleBranchSelection",
                           branch |-> branch, fail |-> fail,
                           before |-> AppFields(app)]]
    /\ UNCHANGED <<undoFile, now, ret, lc, thr, storageMu, logFiles, repo,
                   cli, fn>>

\* Space on the commit list.
MarkCommitStart ==
  \E index \in CommitIndices :
    /\ app' = [markCommitStart(app, index) EXCEPT
                 !.last = [name |-> "markCommitStart", index |-> index,
                           before |-> AppFields(app)]]
    /\ UNCHANGED <<undoFile, now, ret, lc, thr, storageMu, logFiles, repo,
                   cli, fn>>

\* Enter on the commit list.
ConfirmCommitRange ==
  \E index \in CommitIndices, current \in 0..3 :
    /\ current < app.listItems \/ current = 0
    /\ app' = [confirmCommitRange(app, index, current) EXCEPT
                 !.last = [name |-> "confirmCommitRange", index |-> index,
                           current |-> current, before |-> AppFields(app)]]
    /\ UNCHANGED <<undoFile, now, ret, lc, thr, storageMu, logFiles, repo,
                   cli, fn>>

TuiNext == SelectBranch \/ MarkCommitStart \/ ConfirmCommitRange

TuiSpec == PlanInit /\ [][TuiNext]_vars

\* ================================================================ claims
Range(seq) == {seq[i] : i \in 1..Len(seq)}

\* The stack a call began on, as the call loaded it.
Before == loadUndoStateLocked(ret.before)

\* C1: after any sequence of PushUndo, Undo and Redo calls that starts from a
\* missing or empty undo file, the persisted stack has
\* 0 <= position <= len(history).
C1_PositionInRange ==
  /\ undoFile.Position >= 0
  /\ undoFile.Position <= Len(undoFile.History)

\* C1 witness: a persisted stack whose position lies strictly inside a
\* history of two or more entries, reached by an Undo.
C1_Witness ==
  /\ ret.op = "Undo" /\ ret.found
  /\ Len(undoFile.History) >= 2
  /\ undoFile.Position > 0 /\ undoFile.Position < Len(undoFile.History)

\* C2: a successful PushUndo(e) leaves history[0..position) followed by e
\* (e as stored: a zero timestamp is set to the time of the call) and
\* position = len(history); a Redo right after a PushUndo returns not-found.
C2_PushTruncates ==
  /\ (ret.op = "PushUndo" /\ ~ret.err) =>
       /\ undoFile.kind = "json"
       /\ undoFile.History =
            SubSeq(Before.History, 1, Before.Position)
              \o <<StampEntry(ret.arg, ret.at)>>
       /\ undoFile.Position = Len(undoFile.History)
  /\ (ret.op = "Redo" /\ ret.prev.op = "PushUndo" /\ ~ret.prev.err) =>
       /\ ~ret.found /\ ~ret.err
       /\ undoFile = ret.before

\* C2 witness: a PushUndo on a stack with redo entries (position below the
\* length) has succeeded.
C2_Witness ==
  /\ ret.op = "PushUndo" /\ ~ret.err
  /\ Before.Position < Len(Before.History)
  /\ Before.Position > 0

\* C3: Undo at position > 0 persists position - 1 and returns the entry at the
\* new position with found = true (when the save succeeds); at position 0,
\* also with no undo file, it returns found = false, no error, and leaves
\* the persisted stack as it was.
C3_Undo ==
  ret.op = "Undo" =>
    IF Before.Position > 0
    THEN /\ ret.err => (~ret.found /\ undoFile = ret.before)
         /\ ~ret.err =>
              /\ ret.found
              /\ ret.entry = Before.History[(Before.Position - 1) + 1]
              /\ undoFile = JsonFile(undoState(Before.History,
                                               Before.Position - 1))
    ELSE ~ret.found /\ ~ret.err /\ undoFile = ret.before

\* C3 witness: an Undo from a position above 1 has returned an entry.
C3_Witness ==
  ret.op = "Undo" /\ ret.found /\ Before.Position > 1

\* C3 second case seen: an Undo on a storage root without undo file.
C3_WitnessMissing ==
  ret.op = "Undo" /\ ~ret.found /\ ret.before = MissingFile

\* C4: Redo at position < len(history) returns the entry at position with
\* found = true and persists position + 1 (when the save succeeds); at
\* position = len(history) it returns found = false, no error, and leaves the
\* persisted stack as it was.
C4_Redo ==
  ret.op = "Redo" =>
    IF Before.Position < Len(Before.History)
    THEN /\ ret.err => (~ret.found /\ undoFile = ret.before)
         /\ ~ret.err =>
              /\ ret.found
              /\ ret.entry = Before.History[Before.Position + 1]
              /\ undoFile = JsonFile(undoState(Before.History,
                                               Before.Position + 1))
    ELSE ~ret.found /\ ~ret.err /\ undoFile = ret.before

\* C4 witness: a Redo from a position that is neither 0 nor the last has
\* returned an entry.
C4_Witness ==
  /\ ret.op = "Redo" /\ ret.found
  /\ Before.Position > 0
  /\ Before.Position + 1 < Len(Before.History)

\* C5: pushing e1..eN, then N+1 Undo calls, then N+1 Redo calls: the first N
\* undos return eN..e1, the first N redos return e1..eN, undo N+1 and redo
\* N+1 return not-found, and the stack ends as ([e1..eN], N).
C5_Lifecycle ==
  lc.phase = "done" =>
    /\ Len(lc.undos) = lc.n + 1 /\ Len(lc.redos) = lc.n + 1
    /\ \A i \in 1..lc.n :
         /\ lc.undos[i].found /\ ~lc.undos[i].err
         /\ lc.undos[i].entry = lc.pushed[lc.n + 1 - i]
         /\ lc.redos[i].found /\ ~lc.redos[i].err
         /\ lc.redos[i].entry = lc.pushed[i]
    /\ ~lc.undos[lc.n + 1].found /\ ~lc.undos[lc.n + 1].err
    /\ ~lc.redos[lc.n + 1].found /\ ~lc.redos[lc.n + 1].err
    /\ loadUndoStateLocked(undoFile) = undoState(lc.pushed, lc.n)

\* C5 witness: a finished lifecycle of N >= 2 with two different entries.
C5_Witness ==
  /\ lc.phase = "done"
  /\ lc.n >= 2
  /\ lc.pushed[1] # lc.pushed[2]

\* C6: two processes that each push one entry concurrently both keep their
\* entry: once both calls have returned, the persisted history holds both
\* entries and position equals its length.
C6_NoLostUpdate ==
  \A s, t \in Threads :
    (ProcOf(s) # ProcOf(t) /\ thr[s].pc = "done" /\ thr[t].pc = "done") =>
      /\ ThreadEntry(s) \in Range(undoFile.History)
      /\ ThreadEntry(t) \in Range(undoFile.History)
      /\ undoFile.Position = Len(undoFile.History)

\* Within one process the mutex does serialise the calls: two goroutines of
\* the same process never lose an entry to each other.
SameProcessSerialised ==
  \A s, t \in Threads :
    (s # t /\ ProcOf(s) = ProcOf(t)) =>
      ~(thr[s].pc \in {"locked", "loaded", "saved"}
        /\ thr[t].pc \in {"locked", "loaded", "saved"})

\* ---------------------------------------------------------- CLI claims
IsCliOp == cli.cmd \in Kinds

\* The plan commands the executor ran (checkout, cherry-pick, revert,
\* commit, branch), in order, each with git's answer.
Executed == SelectSeq(cli.log, LAMBDA e : IsMutating(e.args))

\* The head lookups (git rev-parse) the command made.
HeadLookups ==
  SelectSeq(cli.log, LAMBDA e : e.args[1] = <<"rev-parse">>)

AnyFailed(entries) == \E i \in 1..Len(entries) : ~entries[i].ok

StoreUnchanged == logFiles = cli.before.logs /\ undoFile = cli.before.undo

\* C7: in apply mode a record is written and an undo entry pushed only after
\* every command of the plan has succeeded; when a plan command or a head
\* lookup fails, the logs directory and the undo stack are as they were.
C7_NoPartialRecords ==
  (IsCliOp /\ cli.apply) =>
    /\ ~StoreUnchanged =>
         /\ Len(Executed) = Len(cli.plan)
         /\ ~AnyFailed(Executed)
    /\ (AnyFailed(Executed) \/ AnyFailed(HeadLookups)) => StoreUnchanged

\* C7 witness: an apply whose second plan command failed after the checkout
\* had succeeded.
C7_Witness ==
  /\ IsCliOp /\ cli.apply
  /\ Len(Executed) = 2 /\ Executed[1].ok /\ ~Executed[2].ok

\* C7 second case seen: an apply that wrote its record and pushed its entry.
C7_WitnessSuccess ==
  /\ IsCliOp /\ cli.apply /\ cli.err = "none"
  /\ logFiles # cli.before.logs /\ undoFile # cli.before.undo

\* C8: without --apply, transfer, revert and restore run no checkout,
\* cherry-pick, revert, commit or branch command, write no log file and
\* leave the undo stack and the repository as they were; on success they
\* print the planned commands (or the duplicate-skip notice).
C8_DryRunTouchesNothing ==
  (IsCliOp /\ ~cli.apply) =>
    /\ Executed = <<>>
    /\ StoreUnchanged
    /\ repo = cli.before.repo
    /\ cli.err = "none" =>
         \/ cli.printed = printPlan(cli.plan) /\ cli.plan # <<>>
         \/ cli.printed = << <<"Skipping transfer due to duplicate patches.">> >>

\* C8 witness: a dry-run transfer that looked up the range and printed its
\* three-command plan.
C8_Witness ==
  /\ cli.cmd = "transfer" /\ ~cli.apply /\ cli.err = "none"
  /\ Len(cli.plan) = 3 /\ cli.printed = printPlan(cli.plan)
  /\ Len(cli.log) >= 2

\* An invocation written the way the plan builder writes a command: "git",
\* the arguments separated by spaces, the message of commit -m quoted by %q.
Render(args) ==
  <<"git">> \o Concat([i \in 1..Len(args) |->
                         <<SP>> \o (IF args[1] = <<"commit">> /\ i = 3
                                    THEN Quote(args[i]) ELSE args[i])])

\* The executed invocations are the plan's commands, in order, and all of
\* them when no command failed.
ExecutionFollowsPlan ==
  /\ Len(Executed) <= Len(cli.plan)
  /\ \A i \in 1..Len(Executed) : Render(Executed[i].args) = cli.plan[i]
  /\ ~AnyFailed(Executed) =>
       (Len(Executed) = Len(cli.plan) \/ (Len(HeadLookups) = 1 /\ AnyFailed(HeadLookups)))

\* C9: in apply mode the git invocations performed (subcommand and
\* arguments, in order) are the commands of the plan that dry-run prints, for
\* transfer, revert and restore.
C9_PreviewEqualsExecution ==
  (IsCliOp /\ cli.apply /\ cli.plan # <<>>) => ExecutionFollowsPlan

\* The same holds of revert and restore, whose Execute passes the arguments
\* directly, and of transfer for messages that %q leaves unescaped or
\* escapes as \" only.
PreviewEqualsExecutionElsewhere ==
  (IsCliOp /\ cli.apply /\ cli.plan # <<>>
   /\ (cli.cmd = "transfer" => (cli.message # EmptyStr /\ NL \notin Range(cli.message))))
    => ExecutionFollowsPlan

\* ------------------------------------------------------- plan claims
\* The command line made of the given words, one space between them.
Words(words) ==
  words[1] \o Concat([i \in 1..(Len(words) - 1) |-> <<SP>> \o words[i + 1]])

\* The verb of the range step of each two-branch plan builder.
ApplyVerb == [k \in {"transfer.Plan", "revert.Plan"} |->
                IF k = "transfer.Plan" THEN <<"cherry-pick">> ELSE <<"revert">>]

\* C11: the transfer (revert) plan is three commands in order: checkout of
\* the target, cherry-pick (revert) --no-commit over start^..end, commit -m
\* with the message quoted; a single-commit range start = end is c^..c.
C11_PlanThreeCommands ==
  fn.name \in {"transfer.Plan", "revert.Plan"} =>
    /\ Len(fn.out) = 3
    /\ fn.out[1] = Words(<< <<"git">>, <<"checkout">>, fn.target >>)
    /\ fn.out[2] = Words(<< <<"git">>, ApplyVerb[fn.name], <<"--no-commit">>,
                            fn.startHash \o <<"^">> \o <<DOT, DOT>>
                              \o fn.endHash >>)
    /\ fn.out[3] = Words(<< <<"git">>, <<"commit">>, <<"-m">>,
                            Quote(fn.message) >>)

\* C11 witness: a transfer plan for the single commit a1b2c3 with a message
\* that holds a quote.
C11_Witness ==
  /\ fn.name = "transfer.Plan"
  /\ fn.startHash = <<"a1b2c3">> /\ fn.endHash = fn.startHash
  /\ DQ \in Range(fn.message)
  /\ fn.out[2] = <<"git", SP, "cherry-pick", SP, "--no-commit", SP, "a1b2c3",
                   "^", DOT, DOT, "a1b2c3">>

\* C12: the restore plan is the single command git branch <name> <commit>,
\* and a restore issues no checkout: it runs that one command only and the
\* checked-out branch is the same before and after.
C12_RestoreSingleStep ==
  cli.cmd = "restore" =>
    /\ cli.plan # <<>> =>
         cli.plan = << Words(<< <<"git">>, <<"branch">>, cli.to, cli.rev >>) >>
    /\ \A i \in 1..Len(cli.log) : cli.log[i].args[1] # <<"checkout">>
    /\ Len(Executed) <= 1
    /\ \A i \in 1..Len(Executed) :
         Executed[i].args = << <<"branch">>, cli.to, cli.rev >>
    /\ repo.checkedOut = cli.before.repo.checkedOut

\* C12 witness: an applied restore that created the branch while main stayed
\* checked out.
C12_Witness ==
  /\ cli.cmd = "restore" /\ cli.apply /\ cli.err = "none"
  /\ cli.before.repo.head[cli.to] = EmptyStr /\ repo.head[cli.to] # EmptyStr
  /\ repo.checkedOut = Main /\ Len(Executed) = 1

\* ---------------------------------------------------- executor claims
\* The steps of a transfer or revert attempt, by git subcommand.
Steps ==
  [k \in {"transfer", "revert"} |->
     << <<"checkout">>,
        IF k = "transfer" THEN <<"cherry-pick">> ELSE <<"revert">>,
        <<"commit">> >>]

\* C13: within one transfer or revert the executor runs Checkout, ApplyRange,
\* Commit in that order, each at most once; every step before the last one
\* run succeeded, so nothing runs after a failing step and none is retried.
C13_StepOrder ==
  cli.cmd \in {"transfer", "revert"} =>
    /\ Len(Executed) <= 3
    /\ \A i \in 1..Len(Executed) : Executed[i].args[1] = Steps[cli.cmd][i]
    /\ \A i \in 1..(Len(Executed) - 1) : Executed[i].ok

\* C13 witness: a transfer whose cherry-pick failed after the checkout; the
\* commit was not issued.
C13_Witness ==
  /\ cli.cmd = "transfer" /\ cli.apply /\ cli.err = "run"
  /\ Len(Executed) = 2
  /\ Executed[1].args[1] = <<"checkout">> /\ Executed[1].ok
  /\ Executed[2].args[1] = <<"cherry-pick">> /\ ~Executed[2].ok

\* strings.Contains(hay, needle)
Contains(hay, needle) ==
  \E i \in 0..(Len(hay) - Len(needle)) :
    SubSeq(hay, i + 1, i + Len(needle)) = needle

\* The ApplyRange step (cherry-pick or revert) of an apply exited nonzero.
ApplyRangeFailed ==
  /\ cli.cmd \in {"transfer", "revert"} /\ cli.apply
  /\ Len(Executed) = 2 /\ ~Executed[2].ok

\* The error names the failing command, carries git's stderr and tells the
\* user to continue or abort on the git side.
ErrorReportsFollowUp ==
  /\ Contains(cli.msg, cli.plan[2])
  /\ Contains(cli.msg, GitStderr(IF repo.dirty THEN "conflict" ELSE "fatal"))
  /\ Contains(cli.msg, <<"--continue">>)
  /\ Contains(cli.msg, <<"--abort">>)

\* C14: whenever the ApplyRange step of a transfer or a revert exits nonzero
\* in apply mode, the returned error names the exact failing command with
\* its stderr and states the manual follow-up (continue or abort).
C14_ApplyRangeErrorReports == ApplyRangeFailed => ErrorReportsFollowUp

\* The same for revert alone, whose Execute words the error itself.
RevertErrorReports ==
  (ApplyRangeFailed /\ cli.cmd = "revert") => ErrorReportsFollowUp

\* A transfer's error does name the failing command and carry the stderr.
TransferErrorNamesCommand ==
  (ApplyRangeFailed /\ cli.cmd = "transfer") =>
    /\ Contains(cli.msg, cli.plan[2])
    /\ Contains(cli.msg, GitStderr(IF repo.dirty THEN "conflict" ELSE "fatal"))

\* The git subcommands the handlers and executors issue.
IssuedSubcommands ==
  {<<"status">>, <<"rev-list">>, <<"log">>, <<"rev-parse">>, <<"checkout">>,
   <<"cherry-pick">>, <<"revert">>, <<"commit">>, <<"branch">>}

\* Options that resume or give up a stopped git operation.
ResolutionOptions == {<<"--abort">>, <<"--continue">>, <<"--skip">>, <<"--quit">>}

RECURSIVE Replay(_, _, _, _)
\* The repository after git has answered the entries from the i-th on, a
\* failed entry answered with the given kind of failure.
Replay(r, entries, i, kind) ==
  IF i > Len(entries) THEN r
  ELSE Replay(gitRun(r, entries[i].args,
                     IF entries[i].ok THEN "ok" ELSE kind).repo,
              entries, i + 1, kind)

\* C15: no execution issues cherry-pick/revert --abort or --continue, a
\* reset or any other resolution command; a failed plan command is the last
\* git invocation of the run and the repository is exactly what the executed
\* commands, the failing one included, left.
C15_NoAutoResolution ==
  (IsCliOp /\ cli.apply) =>
    /\ \A i \in 1..Len(cli.log) :
         /\ cli.log[i].args[1] \in IssuedSubcommands
         /\ Range(cli.log[i].args) \cap ResolutionOptions = {}
    /\ AnyFailed(Executed) => ~cli.log[Len(cli.log)].ok
    /\ \E kind \in {"conflict", "fatal"} :
         repo = Replay(cli.before.repo, Executed, 1, kind)

\* C15 witness: a cherry-pick or revert stopped on a conflict and the tree
\* still holds the partial changes.
C15_Witness ==
  /\ ApplyRangeFailed /\ repo.dirty /\ ~cli.before.repo.dirty
  /\ cli.log[Len(cli.log)] = Executed[2]

\* ------------------------------------------------------ undo entry claims
\* The command succeeded in apply mode and pushed an undo entry.
PushedEntry ==
  IsCliOp /\ cli.apply /\ cli.err = "none" /\ undoFile # cli.before.undo

\* The entry on top of the persisted stack.
TopEntry ==
  LET state == loadUndoStateLocked(undoFile)
  IN state.History[state.Position]

\* The entry's heads are the target branch's heads around the plan.
HeadsCaptured ==
  /\ TopEntry.BeforeHead = cli.before.repo.head[cli.to]
  /\ TopEntry.AfterHead = repo.head[cli.to]

\* C16: the UndoEntry pushed by a successful transfer, revert or restore
\* carries as before-head the target branch's head before the first plan
\* command and as after-head the target branch's head after the last one.
C16_EntryCarriesHeads == PushedEntry => HeadsCaptured

\* Transfer and revert read both heads with git rev-parse around the plan.
TransferRevertCarryHeads ==
  (PushedEntry /\ cli.cmd \in {"transfer", "revert"}) =>
    /\ HeadsCaptured
    /\ Len(HeadLookups) = 2 /\ ~AnyFailed(HeadLookups)

\* C17: the UndoEntry pushed by a successful transfer from S to T records
\* source = S and target = T.
C17_EntrySourceAndTarget ==
  (PushedEntry /\ cli.cmd = "transfer") =>
    /\ TopEntry.Source = cli.from
    /\ TopEntry.Target = cli.to

\* The entry of a transfer does record the target branch as its target.
TransferEntryTarget ==
  (PushedEntry /\ cli.cmd = "transfer") => TopEntry.Target = cli.to

\* ------------------------------------------------------------ log claims
\* The name WriteOperation is to give a record stamped ts when the names
\* in use are taken: the timestamp alone, else the smallest free suffix.
ExpectedName(taken, ts) ==
  IF <<ts, 0>> \notin taken THEN <<ts, 0>>
  ELSE <<ts, CHOOSE i \in 1..(Cardinality(taken) + 1) :
               /\ <<ts, i>> \notin taken
               /\ \A j \in 1..(i - 1) : <<ts, j>> \in taken>>

\* C18: WriteOperation never overwrites a record: after k successful calls
\* the logs directory holds k files of distinct names, every earlier file is
\* still there unchanged, and the new file is named by its timestamp or, on
\* collision, by the smallest unused suffix _1, _2, ...
C18_NeverOverwrites ==
  fn.name = "WriteOperation" =>
    /\ Cardinality(logFiles) = fn.count
    /\ Cardinality(LogNames(logFiles)) = fn.count
    /\ fn.before \subseteq logFiles
    /\ ~fn.err =>
         LET ts == IF fn.op.Timestamp = ZeroTime THEN fn.at
                   ELSE fn.op.Timestamp
         IN logFiles \ fn.before =
              {[name |-> ExpectedName(LogNames(fn.before), ts),
                op |-> [fn.op EXCEPT !.Timestamp = ts]]}

\* C18 witness: a third record written in the same second as two others
\* got the suffix _2.
C18_Witness ==
  /\ fn.name = "WriteOperation" /\ ~fn.err /\ fn.count = 3
  /\ \E ts \in 1..MaxClock :
       LogNames(logFiles) = {<<ts, 0>>, <<ts, 1>>, <<ts, 2>>}

\* C19: when writing the record fails after the plan's commands succeeded,
\* the command returns that error, pushes no undo entry and does not roll
\* the repository back; and an undo entry is pushed only once the record
\* has been written.
C19_RecordFailureIsFatal ==
  (IsCliOp /\ cli.apply) =>
    /\ cli.err = "write" =>
         /\ StoreUnchanged
         /\ Executed # <<>> /\ ~AnyFailed(Executed)
         /\ repo = Replay(cli.before.repo, Executed, 1, "fatal")
         /\ repo # cli.before.repo
    /\ undoFile # cli.before.undo => logFiles # cli.before.logs

\* C19 witness: a transfer committed on the target branch and then failed to
\* write its record.
C19_Witness ==
  /\ cli.cmd = "transfer" /\ cli.apply /\ cli.err = "write"
  /\ Len(Executed) = 3 /\ ~AnyFailed(Executed)
  /\ repo.head[cli.to] # cli.before.repo.head[cli.to]

\* --------------------------------------------------- undo/redo claims
\* The stack an undo or redo command began on, as it loaded it.
CliBefore == loadUndoStateLocked(cli.before.undo)

\* C20: gitcherry undo and gitcherry redo, and the store calls they make,
\* run no git command that changes the working tree, the index or a branch
\* head: the repository and the logs are as before, the history is the same
\* with the position moved by at most one, and what is printed is the stored
\* entry's branch and before/after identifiers.
C20_UndoRedoOnlyMovePosition ==
  cli.cmd \in {"undo", "redo"} =>
    LET after == loadUndoStateLocked(undoFile)
        step == IF cli.cmd = "undo" THEN -1 ELSE 1
        moved == after.Position = CliBefore.Position + step
        entry == CliBefore.History[IF cli.cmd = "undo" THEN CliBefore.Position
                                   ELSE CliBefore.Position + 1]
    IN /\ Executed = <<>>
       /\ repo = cli.before.repo
       /\ logFiles = cli.before.logs
       /\ after.History = CliBefore.History
       /\ moved \/ after.Position = CliBefore.Position
       /\ moved => cli.printed =
                     entryLines(IF cli.cmd = "undo" THEN "Undo" ELSE "Redo",
                                entry)

\* C20 witness: an undo that stepped back over an entry of a branch whose
\* head is not the entry's before-head, and printed it.
C20_Witness ==
  /\ cli.cmd = "undo" /\ cli.err = "none" /\ Len(cli.printed) = 2
  /\ loadUndoStateLocked(undoFile).Position = CliBefore.Position - 1
  /\ CliBefore.History[CliBefore.Position].BeforeHead # repo.head[repo.checkedOut]

\* C20 second case seen: a redo that stepped forward and printed its entry.
C20_WitnessRedo ==
  /\ cli.cmd = "redo" /\ cli.err = "none" /\ Len(cli.printed) = 2
  /\ loadUndoStateLocked(undoFile).Position = CliBefore.Position + 1

\* ------------------------------------------------- range resolver claims
Resolved == fn.name = "collectCommitsForRange"

\* A query that failed or listed nothing.
NoIdentifiers(out) == out.err \/ out.lines = <<>>

\* C21: for a single reference (start = end) the resolver returns, without
\* error, a non-empty list that contains start, whatever the two queries
\* answer.
C21_SingleRefAlwaysResolves ==
  (Resolved /\ fn.start = fn.end) =>
    /\ ~fn.out.err
    /\ fn.out.hashes # <<>>
    /\ fn.start \in Range(fn.out.hashes)

\* It does so whenever the second query, if asked, does not fail and the
\* first lists nothing or git's own answer.
SingleRefResolvesWhenAnswered ==
  (Resolved /\ fn.start = fn.end
   /\ (NoIdentifiers(fn.out1) \/ fn.out1 = gitRevList(fn.start, fn.end, TRUE))
   /\ (NoIdentifiers(fn.out1) => ~fn.out2.err)
   /\ fn.out2.lines \in {<<>>, <<fn.start>>}) =>
    /\ ~fn.out.err
    /\ fn.out.hashes = <<fn.start>>

\* C22: when both queries fail or list nothing the resolver returns no
\* error but the literal list: [start] when start = end, else [start, end].
C22_LiteralFallback ==
  (Resolved /\ NoIdentifiers(fn.out1) /\ NoIdentifiers(fn.out2)) =>
    /\ ~fn.out.err
    /\ fn.out.hashes = IF fn.start = fn.end THEN <<fn.start>>
                       ELSE <<fn.start, fn.end>>

\* What the code does in that case: an error when the second query failed,
\* else the list [start] alone.
FallbackAsCoded ==
  (Resolved /\ NoIdentifiers(fn.out1) /\ NoIdentifiers(fn.out2)) =>
    IF fn.out2.err THEN fn.out.err
    ELSE ~fn.out.err /\ fn.out.hashes = <<fn.start>>

\* C23: when git answers the queries, the resolver returns the commits from
\* start through end inclusive, oldest first, without duplicates: the answer
\* to start^..end when non-empty, else the answer to start..end with start
\* put in front.
C23_InclusiveOldestFirst ==
  (Resolved /\ ChainIndex(fn.start) <= ChainIndex(fn.end)
   /\ fn.out1 = gitRevList(fn.start, fn.end, TRUE)
   /\ fn.out2 = gitRevList(fn.start, fn.end, FALSE)) =>
    /\ ~fn.out.err
    /\ fn.out.hashes = SubSeq(Chain, ChainIndex(fn.start), ChainIndex(fn.end))
    /\ \A i, j \in 1..Len(fn.out.hashes) :
         fn.out.hashes[i] = fn.out.hashes[j] => i = j

\* C23 witness: a range starting at the root commit: r0^..c2 is refused,
\* r0..c2 lists c1 and c2, and r0 is put in front.
C23_Witness ==
  /\ Resolved /\ fn.start = Chain[1] /\ fn.end = Chain[3]
  /\ fn.out1.err /\ fn.out2 = gitRevList(fn.start, fn.end, FALSE)
  /\ fn.out2.lines = << Chain[2], Chain[3] >>
  /\ fn.out.hashes = Chain

\* C24: parseRangeSpec fails for a string that is empty after trimming and
\* for a two-dot range with an empty left or right endpoint ("a..", "..b",
\* ".."); for a..b it returns exactly (a, b).
C24_ParseRangeSpec ==
  fn.name = "parseRangeSpec" =>
    /\ (fn.left = EmptyStr /\ fn.right = EmptyStr) => fn.out.err
    /\ (fn.dots /\ (fn.left = EmptyStr \/ fn.right = EmptyStr)) => fn.out.err
    /\ (fn.dots /\ fn.left # EmptyStr /\ fn.right # EmptyStr) =>
         /\ ~fn.out.err
         /\ fn.out.start = fn.left /\ fn.out.end = fn.right

\* C24 witness: "c1.." with a trailing space, refused although a single
\* reference would be allowed.
C24_Witness ==
  /\ fn.name = "parseRangeSpec" /\ fn.raw = <<"c1", DOT, DOT, SP>>
  /\ fn.allowSingle /\ fn.out.err

\* C24 second case seen: c1..c2 parsed to (c1, c2).
C24_WitnessPair ==
  /\ fn.name = "parseRangeSpec" /\ fn.raw = <<"c1", DOT, DOT, "c2">>
  /\ ~fn.out.err /\ fn.out.start = <<"c1">> /\ fn.out.end = <<"c2">>

\* In the commands a refused range ends the command before a plan is built
\* or anything is run or stored.
RangeErrorStopsCommand ==
  (IsCliOp /\ cli.err = "range") =>
    /\ cli.plan = <<>> /\ cli.printed = <<>>
    /\ Executed = <<>>
    /\ StoreUnchanged /\ repo = cli.before.repo

\* The command got past the root pre-run.
PreRunPassed == cli.err \notin {"config", "status", "dirty"}

\* The --range value is a single reference: not empty, no two-dot separator.
SingleReference ==
  TrimSpace(cli.rev) # EmptyStr /\ FirstDotDot(TrimSpace(cli.rev)) = 0

\* C25: a single reference is accepted only in single-reference mode: revert
\* takes --range <hash> and plans over <hash>^..<hash>; transfer refuses it
\* with an error before resolving commits, detecting duplicates or building
\* a plan.
C25_SingleReferenceMode ==
  (SingleReference /\ PreRunPassed) =>
    /\ cli.cmd = "revert" =>
         /\ cli.err # "range"
         /\ cli.plan # <<>>
         /\ cli.plan[2] = Words(<< <<"git">>, <<"revert">>, <<"--no-commit">>,
                                   TrimSpace(cli.rev) \o <<"^", DOT, DOT>>
                                     \o TrimSpace(cli.rev) >>)
    /\ cli.cmd = "transfer" =>
         /\ cli.err = "range"
         /\ cli.plan = <<>>
         /\ \A i \in 1..Len(cli.log) : cli.log[i].args[1] = <<"status">>

\* C25 witness: a revert of the single commit c2, planned over c2^..c2.
C25_Witness ==
  /\ cli.cmd = "revert" /\ cli.rev = <<"c2">> /\ cli.err = "none"
  /\ Len(cli.plan) = 3

\* C25 second case seen: a transfer given the single reference c1, refused.
C25_WitnessTransfer ==
  /\ cli.cmd = "transfer" /\ cli.rev = <<"c1">> /\ cli.err = "range"
  /\ Len(cli.log) = 1

\* ------------- C26
\* The commits a target log answer lists.
OnTarget(logOut) == {logOut.lines[i] : i \in 1..Len(logOut.lines)}

\* commit has a fingerprint, and some commit on the target has the same one.
SameFingerprintOnTarget(commit, logOut, PatchID) ==
  /\ PatchID[commit] # NoPatchID
  /\ \E t \in OnTarget(logOut) : PatchID[t] = PatchID[commit]

\* seq is a subsequence of the candidates that keeps their order: strictly
\* increasing positions of commits give its elements.
InCandidateOrder(seq, commits) ==
  \E pos \in [1..Len(seq) -> 1..Len(commits)] :
    /\ \A i \in 1..Len(seq) : seq[i] = commits[pos[i]]
    /\ \A i, j \in 1..Len(seq) : i < j => pos[i] < pos[j]

\* C26: DetectDuplicates, when the target's commits could be listed, returns
\* without error exactly the candidates whose fingerprint is the fingerprint
\* of a commit on the target, in candidate order, whatever the commit
\* identifiers are; with no candidates it returns nothing and no error.
C26_ExactlyTheDuplicates ==
  fn.name = "DetectDuplicates" =>
    /\ fn.commits = <<>> => ~fn.out.err /\ fn.out.duplicates = <<>>
    /\ ~fn.logOut.err =>
         /\ ~fn.out.err
         /\ InCandidateOrder(fn.out.duplicates, fn.commits)
         /\ \A c \in DupHashes :
              (\E i \in 1..Len(fn.out.duplicates) : fn.out.duplicates[i] = c)
                <=> /\ \E i \in 1..Len(fn.commits) : fn.commits[i] = c
                    /\ SameFingerprintOnTarget(c, fn.logOut, fn.PatchID)

\* A candidate that is not on the target under its own identifier is
\* reported because a target commit has its fingerprint, after an earlier
\* candidate that is a duplicate too.
C26_Witness ==
  /\ fn.name = "DetectDuplicates"
  /\ ~fn.logOut.err
  /\ Len(fn.out.duplicates) = 2
  /\ fn.out.duplicates = fn.commits
  /\ \E i \in 1..2 : fn.out.duplicates[i] \notin OnTarget(fn.logOut)

\* Candidates whose fingerprints are all absent from the target: nothing
\* is reported.
C26_WitnessDisjoint ==
  /\ fn.name = "DetectDuplicates"
  /\ ~fn.logOut.err
  /\ Len(fn.commits) = 2
  /\ fn.logOut.lines # <<>>
  /\ \A i \in 1..2 : fn.PatchID[fn.commits[i]] # NoPatchID
  /\ \A t \in OnTarget(fn.logOut) : fn.PatchID[t] # NoPatchID
  /\ fn.out.duplicates = <<>>

\* ------------- C27
\* seq without the commits whose fingerprint cannot be computed.
WithFingerprint(seq, PatchID) ==
  LET Has(h) == PatchID[h] # NoPatchID IN SelectSeq(seq, Has)

\* C27: a commit whose fingerprint cannot be computed does not end the
\* detection: the result is not an error, holds no such candidate, and is
\* the result of the detection run without the failing commits, on the
\* target side and on the candidate side.
C27_FingerprintFailureIsNoMatch ==
  (fn.name = "DetectDuplicates" /\ ~fn.logOut.err) =>
    /\ ~fn.out.err
    /\ \A i \in 1..Len(fn.out.duplicates) :
         fn.PatchID[fn.out.duplicates[i]] # NoPatchID
    /\ LET present == WithFingerprint(fn.commits, fn.PatchID)
           target == [err |-> FALSE,
                      lines |-> WithFingerprint(fn.logOut.lines, fn.PatchID)]
       IN fn.out.duplicates =
            DetectDuplicates(target, fn.PatchID, present).duplicates

\* One candidate and one target commit have no fingerprint, and the other
\* candidate is still reported as a duplicate.
C27_Witness ==
  /\ fn.name = "DetectDuplicates"
  /\ ~fn.logOut.err
  /\ \E t \in OnTarget(fn.logOut) : fn.PatchID[t] = NoPatchID
  /\ \E i \in 1..Len(fn.commits) : fn.PatchID[fn.commits[i]] = NoPatchID
  /\ Len(fn.out.duplicates) = 1

\* ------------- C28
\* The transfer asked git for the target's commits (git log --pretty=%H
\* <target>) and git answered ok.
TargetLogAnswered(ok) ==
  /\ cli.cmd = "transfer"
  /\ \E i \in 1..Len(cli.log) :
       cli.log[i].args[1] = <<"log">> /\ cli.log[i].ok = ok

\* C28: a transfer whose duplicate detection could not list the target's
\* commits does not fail on that account and still produces its plan.
C28_DetectionIsAdvisory ==
  TargetLogAnswered(FALSE) => cli.err # "duplicates" /\ cli.plan # <<>>

\* What the code does: the failed listing is the command's error, and
\* nothing is planned, printed, run or stored.
DetectionFailureStopsTransfer ==
  TargetLogAnswered(FALSE) =>
    /\ cli.err = "duplicates"
    /\ cli.plan = <<>> /\ cli.printed = <<>>
    /\ Executed = <<>>
    /\ StoreUnchanged /\ repo = cli.before.repo

\* What DetectDuplicates does: with candidates, a failed listing is returned
\* as an error and no result.
DetectorReturnsListingError ==
  (fn.name = "DetectDuplicates" /\ fn.logOut.err /\ fn.commits # <<>>) =>
    fn.out.err /\ fn.out.duplicates = <<>>

\* ------------- C29
\* The detector reported a duplicate to a transfer running under policy
\* mode, stdin being a terminal or not.
DuplicateReported ==
  /\ TargetLogAnswered(TRUE)
  /\ cli.in.dup = "some"

\* The policy stops the transfer without asking: skip, or ask without a
\* terminal to ask on.
PolicySkips ==
  \/ cli.in.mode = "skip"
  \/ cli.in.mode = "ask" /\ ~cli.in.interactive

\* The outcome of the same invocation had the detector found nothing.
WithoutDuplicates ==
  TransferCmd(cli.before.repo, [cli.in EXCEPT !.dup = "none"])

\* The command ended as outcome o describes, stamping at the current time.
EndedAs(o) ==
  /\ cli.err = o.err /\ cli.printed = o.printed /\ cli.plan = o.plan
  /\ cli.log = o.log /\ cli.message = o.message /\ cli.msg = o.msg
  /\ repo = o.repo
  /\ logFiles = IF o.write THEN WriteOperation(cli.before.logs, o.op, now)
                ELSE cli.before.logs
  /\ undoFile = IF o.push THEN PushUndoFile(cli.before.undo, o.undo, now)
                ELSE cli.before.undo

\* C29: when the detector reports a duplicate, a transfer under policy skip,
\* or under ask without an interactive stdin, builds no plan, runs no
\* mutating command, writes no record, pushes no undo entry and succeeds,
\* with or without --apply; under policy apply it ends exactly as the same
\* transfer with no duplicate found.
C29_DuplicatePolicy ==
  DuplicateReported =>
    /\ PolicySkips =>
         /\ cli.err = "none"
         /\ cli.plan = <<>>
         /\ Executed = <<>>
         /\ StoreUnchanged /\ repo = cli.before.repo
    /\ cli.in.mode = "apply" => EndedAs(WithoutDuplicates)

\* An applied transfer under skip, and one under ask without a terminal,
\* that stopped on a duplicate.
C29_Witness ==
  /\ DuplicateReported /\ cli.apply
  /\ cli.in.mode = "skip"
  /\ cli.printed = << <<"Skipping transfer due to duplicate patches.">> >>

C29_WitnessAsk ==
  /\ DuplicateReported /\ cli.apply
  /\ cli.in.mode = "ask" /\ ~cli.in.interactive
  /\ cli.printed = << <<"Skipping transfer due to duplicate patches.">> >>

\* An applied transfer under apply that went through despite a duplicate.
C29_WitnessApply ==
  /\ DuplicateReported /\ cli.apply
  /\ cli.in.mode = "apply"
  /\ Len(Executed) = 3 /\ ~StoreUnchanged

\* ------------- C30
\* A command of the root command ran, and the working tree held changes
\* when its pre-run looked.
RanOnDirtyTree ==
  /\ cli.cmd \in Kinds \cup {"undo", "redo", "tui"}
  /\ cli.before.repo.dirty

C30_WitnessUndo ==
  /\ RanOnDirtyTree
  /\ cli.cmd = "undo"
  /\ cli.err = "dirty"
  /\ CliBefore.Position = 1

\* The TUI session refused on a dirty tree.
C30_WitnessSession ==
  /\ RanOnDirtyTree
  /\ cli.cmd = "tui"
  /\ cli.err = "dirty"

\* ------------- C31
\* The file holds a stack: it is absent or zero bytes long (no stack yet), or
\* it parses and its position lies within its history.
HoldsValidStack(file) ==
  \/ file.kind \in {"missing", "empty"}
  \/ /\ file.kind = "json"
     /\ 0 <= file.Position /\ file.Position <= Len(file.History)

\* C31: a PushUndo, Undo or Redo that begins on an undo file that is
\* unreadable or does not hold a valid stack returns an error and leaves the
\* file as it was.
C31_DamagedFileSurfaced ==
  (ret.op \in {"PushUndo", "Undo", "Redo"} /\ ~HoldsValidStack(ret.before)) =>
    ret.err /\ undoFile = ret.before

\* What the code does with a file it cannot read or parse: the call returns
\* an error and no entry, and the file is as it was.
LoadFailureSurfaced ==
  (ret.op \in {"PushUndo", "Undo", "Redo"} /\ loadUndoStateFails(ret.before))
    => ret.err /\ ~ret.found /\ undoFile = ret.before

\* What the code does with a parsable file whose position is out of range:
\* the call proceeds as on the same history with the position at its end.
OutOfRangePositionRepaired ==
  (/\ ret.op \in {"Undo", "Redo", "PushUndo"}
   /\ ret.before.kind = "json" /\ ~HoldsValidStack(ret.before)
   /\ ~ret.err) =>
    LET atEnd == undoState(ret.before.History, Len(ret.before.History))
    IN undoFile =
         CASE ret.op = "Undo" -> saveUndoStateLocked(UndoState(atEnd).state)
           [] ret.op = "Redo" -> ret.before
           [] OTHER -> saveUndoStateLocked(PushState(atEnd,
                                             StampEntry(ret.arg, ret.at)))

\* ------------- C32
\* The attempt in fn is over.
AttemptEnded == fn.name = "Execute" /\ fn.pc = "done"

\* Every invocation of the attempt ran, in order, and git exited 0 each time.
EndedInSuccess ==
  /\ ~fn.err
  /\ Len(fn.log) = Len(fn.invs)
  /\ \A k \in 1..Len(fn.log) : fn.log[k] = Ran(fn.invs[k], TRUE)

\* The invocations ran in order up to one that failed, which is the last.
EndedAtFirstFailure ==
  /\ fn.err
  /\ fn.log # <<>>
  /\ \A k \in 1..Len(fn.log) :
       fn.log[k] = Ran(fn.invs[k], k < Len(fn.log))

\* C32: an executor attempt for a transfer, revert or restore, whether or not
\* its context was cancelled after it started, ends only with every step run
\* in order and successful, or at the first git command that failed; no step
\* is skipped.
C32_CancelNeverPreempts ==
  AttemptEnded => EndedInSuccess \/ EndedAtFirstFailure

\* The context was cancelled after the checkout and the attempt still ran
\* its three commands and succeeded.
C32_Witness ==
  /\ AttemptEnded
  /\ fn.ctxDone /\ fn.cancelledAt = 1
  /\ Len(fn.invs) = 3
  /\ EndedInSuccess

\* A started attempt ends.
AttemptEnds == Executing ~> AttemptEnded

\* ------------- C33
\* gitcherry undo or gitcherry redo ran without --apply and got past the
\* pre-run.
UndoRedoDryRun ==
  /\ cli.cmd \in {"undo", "redo"}
  /\ ~cli.apply
  /\ PreRunPassed

\* C33: gitcherry undo and gitcherry redo run without --apply leave the
\* persisted undo stack, history and position, as it was.
C33_UndoRedoDryRun ==
  UndoRedoDryRun => loadUndoStateLocked(undoFile) = CliBefore

\* What the code does: a command that lists an entry has moved the persisted
\* position by one, back for undo and forward for redo.
UndoRedoCommandSteps ==
  (UndoRedoDryRun /\ cli.err = "none" /\ Len(cli.printed) = 2) =>
    /\ loadUndoStateLocked(undoFile).History = CliBefore.History
    /\ loadUndoStateLocked(undoFile).Position =
         CliBefore.Position + (IF cli.cmd = "undo" THEN 0 - 1 ELSE 1)

\* ------------- C34
\* What splitCommand makes of the commit command of the plan in fn.
SplitCommit == splitCommand(fn.out[3])

\* C34: for every message m, splitCommand applied to the commit command that
\* transfer.Plan emits for m returns, without error, the arguments
\* git, commit, -m, m.
C34_MessageRoundTrip ==
  fn.name = "transfer.Plan" =>
    /\ ~SplitCommit.err
    /\ SplitCommit.args = << <<"git">>, <<"commit">>, <<"-m">>, fn.message >>

\* What the code does: the round trip holds for the messages that are not
\* empty and hold no newline (spaces, double quotes and backslashes come
\* back); the empty message leaves no fourth argument, and a newline comes
\* back as the letter n.
MessageRoundTripElsewhere ==
  fn.name = "transfer.Plan" =>
    /\ ~SplitCommit.err
    /\ SplitCommit.args =
         IF fn.message = EmptyStr
         THEN << <<"git">>, <<"commit">>, <<"-m">> >>
         ELSE << <<"git">>, <<"commit">>, <<"-m">>,
                 [i \in 1..Len(fn.message) |->
                    IF fn.message[i] = NL THEN "n" ELSE fn.message[i]] >>

\* ------------- C35
\* The same call rendered again, the map visited in order o.
RenderedAgain(o) ==
  renderTemplate(fn.template, fn.source, fn.target, fn.rangeSpec, o)

\* C35: rendering a template twice with the same source, target and range
\* returns the same message, whatever the strings hold.
C35_RenderDeterministic ==
  fn.name = "renderTemplate" => \A o \in KeyOrders : RenderedAgain(o) = fn.out

HoldsPlaceholder(str) ==
  \E i \in 1..Len(str) : str[i] \in {SourceKey, TargetKey, RangeKey}

\* What the code does: the rendering is the same in every order when no
\* value holds the text of a placeholder.
RenderDeterministicOnPlainValues ==
  (/\ fn.name = "renderTemplate"
   /\ ~HoldsPlaceholder(fn.source) /\ ~HoldsPlaceholder(fn.target)
   /\ ~HoldsPlaceholder(fn.rangeSpec)) =>
    \A o \in KeyOrders : RenderedAgain(o) = fn.out

\* ------------- C36
\* A value as the pre-run reads it: trimmed and lowered.
Normal(value) == ToLower(TrimSpace(value))

ConfigLoaded == fn.name = "PersistentPreRunE" /\ fn.in.pre # "config"

\* The policy the command runs under when --on-duplicate is not given.
DefaultPolicy ==
  IF ~fn.in.interactive THEN <<"skip">>
  ELSE IF Normal(fn.in.configured) = EmptyStr THEN <<"ask">>
  ELSE Normal(fn.in.configured)

\* C36: whenever a command body runs the effective duplicate policy is ask,
\* skip or apply; an --on-duplicate value or a configured value outside that
\* set makes the pre-run fail; without --on-duplicate the policy is the
\* configured value, ask when there is none, and skip when stdin is not
\* interactive.
C36_EffectivePolicy ==
  ConfigLoaded =>
    /\ fn.bodyRuns => fn.out.mode \in Policies
    /\ Normal(fn.in.flag) \notin Policies \cup {EmptyStr} => ~fn.bodyRuns
    /\ (/\ Normal(fn.in.flag) = EmptyStr
        /\ Normal(fn.in.configured) \notin Policies \cup {EmptyStr})
         => ~fn.bodyRuns
    /\ (~fn.in.changed /\ fn.bodyRuns) => fn.out.mode = DefaultPolicy

\* What the code does: the value that is checked is the effective one, so a
\* configured value outside the set fails the pre-run only when it is the
\* one in effect, that is when stdin is interactive or the flag was given
\* blank.
PolicyAsCoded ==
  ConfigLoaded =>
    /\ fn.bodyRuns => fn.out.mode \in Policies
    /\ Normal(fn.in.flag) \notin Policies \cup {EmptyStr} =>
         fn.out.err = "on-duplicate"
    /\ (/\ Normal(fn.in.flag) = EmptyStr
        /\ Normal(fn.in.configured) \notin Policies \cup {EmptyStr}
        /\ (fn.in.interactive \/ fn.in.changed)) =>
         fn.out.err = "on-duplicate"
    /\ (/\ ~fn.in.changed /\ ~fn.in.interactive) =>
         fn.out.err # "on-duplicate"
    /\ (~fn.in.changed /\ fn.bodyRuns) => fn.out.mode = DefaultPolicy
    /\ fn.out.err = "on-duplicate" => fn.out.log = <<>>

\* ------------- C37
\* The stack the call before the last one began on.
BeforePrev == loadUndoStateLocked(ret.prev.before)

\* A successful Undo was followed at once by a successful Redo.
UndoThenRedo ==
  /\ ret.op = "Redo" /\ ret.found
  /\ ret.prev.op = "Undo" /\ ret.prev.found

\* C37: an Undo or a Redo leaves the persisted history, its length and every
\* entry in order, as it was; and a successful Undo followed at once by a
\* successful Redo returns the same entry twice and leaves the stack as it
\* was before the Undo.
C37_OnlyPositionMoves ==
  /\ ret.op \in {"Undo", "Redo"} =>
       loadUndoStateLocked(undoFile).History = Before.History
  /\ UndoThenRedo =>
       /\ ret.entry = ret.prev.entry
       /\ loadUndoStateLocked(undoFile) = BeforePrev

\* An Undo from the middle of a three-entry history, then a Redo.
C37_Witness ==
  /\ UndoThenRedo
  /\ Len(BeforePrev.History) = 3
  /\ BeforePrev.Position = 2
  /\ ret.entry = BeforePrev.History[2]

\* ------------- C38
\* Thread t's WriteOperation has returned / its record is among the files.
Recorded(t) == thr[t].pc = "done"
RecordKept(t) == \E f \in logFiles : f.op = thr[t].op

\* C38: when two processes have each completed a WriteOperation against the
\* same storage root, whatever the interleaving and also within the same
\* second, both records are on disk.
C38_ConcurrentRecordsKept ==
  \A s, t \in Threads :
    (ProcOf(s) # ProcOf(t) /\ Recorded(s) /\ Recorded(t)) =>
      RecordKept(s) /\ RecordKept(t)

\* What the code does guarantee: two goroutines of one process, whose calls
\* storageMu serialises, both keep their record.
SameProcessRecordsKept ==
  \A s, t \in Threads :
    (ProcOf(s) = ProcOf(t) /\ Recorded(s) /\ Recorded(t)
     /\ \A u \in Threads : ProcOf(u) # ProcOf(s) => thr[u].pc = "idle") =>
      RecordKept(s) /\ RecordKept(t)

\* ------------- C39
\* The App before the last handler ran.
AppBefore == app.last.before

\* The last handler was a branch selection; Chosen is the name it was given,
\* trimmed.
BranchSelected == app.last.name = "handleBranchSelection"
Chosen == TrimSpace(app.last.branch)

\* The commits on the source and not on the target, oldest first.
OnSourceNotTarget ==
  SubSeq(TuiChain, TuiHead(app.branchTarget) + 1, TuiHead(app.branchSource))

\* C39: branch selection cycles through the stages 0, 1, 2, 1, ...: a
\* non-blank selection at stage 0 or 2 sets the source, clears the target
\* and gives stage 1; at stage 1 it sets the target, gives stage 2 and loads
\* the commits on the source that are not on the target; a blank selection
\* changes nothing; at stage 2 source and target are set and at stage 1 the
\* target is empty.
C39_BranchStages ==
  /\ app.branchStage \in {0, 1, 2}
  /\ app.branchStage = 2 =>
       app.branchSource # EmptyStr /\ app.branchTarget # EmptyStr
  /\ app.branchStage = 1 =>
       app.branchSource # EmptyStr /\ app.branchTarget = EmptyStr
  /\ (BranchSelected /\ Chosen = EmptyStr) => AppFields(app) = AppBefore
  /\ (BranchSelected /\ Chosen # EmptyStr
      /\ AppBefore.branchStage \in {0, 2}) =>
       /\ app.branchStage = 1
       /\ app.branchSource = Chosen /\ app.branchTarget = EmptyStr
  /\ (BranchSelected /\ Chosen # EmptyStr /\ AppBefore.branchStage = 1) =>
       /\ app.branchStage = 2
       /\ app.branchSource = AppBefore.branchSource
       /\ app.branchTarget = Chosen
       /\ ~app.last.fail => app.commits = OnSourceNotTarget

\* A third selection: at stage 2 with commits loaded, a new source was
\* chosen and the target cleared.
C39_Witness ==
  /\ BranchSelected
  /\ AppBefore.branchStage = 2 /\ Len(AppBefore.commits) = 3
  /\ app.branchStage = 1
  /\ app.branchSource # AppBefore.branchSource

\* A target selection that loaded three commits.
C39_WitnessTarget ==
  /\ BranchSelected
  /\ AppBefore.branchStage = 1
  /\ app.branchStage = 2
  /\ app.commits = << <<"c1">>, <<"c2">>, <<"c3">> >>

\* ------------- C40
\* No range is selected: SelectedRange returns ok = false.
Unselected == ~SelectedRange(app).ok

\* C40: after any markCommitStart, confirmCommitRange and branch selection,
\* either no range is selected or 0 <= commitStart <= commitEnd <
\* len(commits) and SelectedRange returns the hashes at those two indices;
\* a confirmation at an index below the marked start makes that index the
\* start and the old start the end; selecting a target leaves no range
\* selected.
C40_CommitRange ==
  /\ \/ Unselected
     \/ /\ 0 <= app.commitStart /\ app.commitStart <= app.commitEnd
        /\ app.commitEnd < Len(app.commits)
        /\ SelectedRange(app) =
             [start |-> app.commits[app.commitStart + 1],
              end |-> app.commits[app.commitEnd + 1], ok |-> TRUE]
  /\ (/\ app.last.name = "confirmCommitRange"
      /\ 0 <= app.last.index /\ app.last.index < Len(AppBefore.commits)
      /\ 0 <= AppBefore.commitStart
      /\ app.last.index < AppBefore.commitStart) =>
       /\ app.commitStart = app.last.index
       /\ app.commitEnd = AppBefore.commitStart
  /\ (BranchSelected /\ Chosen # EmptyStr /\ AppBefore.branchStage = 1) =>
       Unselected

\* The start was marked at the third commit and the range confirmed at the
\* first: the bounds are swapped.
C40_Witness ==
  /\ app.last.name = "confirmCommitRange"
  /\ AppBefore.commitStart = 2 /\ app.last.index = 0
  /\ SelectedRange(app) = [start |-> <<"c1">>, end |-> <<"c3">>, ok |-> TRUE]

\* A target was selected while a range was selected.
C40_WitnessReset ==
  /\ BranchSelected /\ AppBefore.branchStage = 1
  /\ AppBefore.commitStart >= 0
  /\ Unselected
====
